---- MODULE Spec2Model ----
(***************************************************************************)
(* Model of the local tool-execution engine of the Lisa CLI (src/lisa.js): *)
(* the permission gate, the tool dispatcher and its handlers, and the      *)
(* agent-turn loop that runs the tools an agent turn asks for.             *)
(*                                                                         *)
(* src/lisa.js holds two definitions of the dispatcher and of the turn     *)
(* loop (the 2.2.0 program, lines 1-3548, and the 2.0.0 program, lines     *)
(* 3549-5832).  The variable "build" says which of the two is running.     *)
(***************************************************************************)
EXTENDS Integers, Sequences, FiniteSets, TLC

(***************************************************************************)
(* Strings.  A JavaScript string is a TLA+ string; Ch(s, i) is s[i-1].     *)
(***************************************************************************)
Ch(s, i) == SubSeq(s, i, i)

UpperLetters == "ABCDEFGHIJKLMNOPQRSTUVWXYZ"
LowerLetters == "abcdefghijklmnopqrstuvwxyz"
Digits == "0123456789"

InStr(c, s) == \E i \in 1..Len(s) : Ch(s, i) = c

\* String.prototype.toLowerCase on one character
LowerCh(c) ==
  IF InStr(c, UpperLetters)
    THEN Ch(LowerLetters, CHOOSE i \in 1..26 : Ch(UpperLetters, i) = c)
    ELSE c

\* String.prototype.toLowerCase
RECURSIVE toLowerCase(_)
toLowerCase(s) ==
  IF Len(s) = 0 THEN "" ELSE LowerCh(Ch(s, 1)) \o toLowerCase(SubSeq(s, 2, Len(s)))

\* String.prototype.substring(0, n)
substring(s, n) == SubSeq(s, 1, IF n < Len(s) THEN n ELSE Len(s))

(***************************************************************************)
(* Regular expressions, as RegExp.prototype.test evaluates them.  A        *)
(* pattern is a sequence of elements [k, c, q]: k the kind of the atom     *)
(* (lit, s for \s, w for \w, dot, wb for \b, end for $), c the literal     *)
(* character, q the quantifier (1, +, *, ?).  An alternation is the set of *)
(* its alternatives.  All patterns of the program carry the i flag.        *)
(***************************************************************************)
IsWordCh(c) == InStr(c, UpperLetters) \/ InStr(c, LowerLetters) \/ InStr(c, Digits) \/ c = "_"
IsSpaceCh(c) == c \in {" ", "\t", "\n", "\r", "\f"}

Lit(str) == [i \in 1..Len(str) |-> [k |-> "lit", c |-> Ch(str, i), q |-> "1"]]
Opt(str) == [i \in 1..Len(str) |-> [k |-> "lit", c |-> Ch(str, i), q |-> "?"]]
WB == << [k |-> "wb", c |-> "", q |-> "1"] >>
EOL == << [k |-> "end", c |-> "", q |-> "1"] >>
S1 == << [k |-> "s", c |-> "", q |-> "1"] >>
SPlus == << [k |-> "s", c |-> "", q |-> "+"] >>
SStar == << [k |-> "s", c |-> "", q |-> "*"] >>
WPlus == << [k |-> "w", c |-> "", q |-> "+"] >>
DotStar == << [k |-> "dot", c |-> "", q |-> "*"] >>

Fits(e, c) ==
  CASE e.k = "lit" -> LowerCh(c) = LowerCh(e.c)
    [] e.k = "s" -> IsSpaceCh(c)
    [] e.k = "w" -> IsWordCh(c)
    [] e.k = "dot" -> c \notin {"\n", "\r"}
    [] OTHER -> FALSE

\* \b at position i (between s[i-1] and s[i], 1-based)
AtWordBoundary(s, i) ==
  LET before == i > 1 /\ IsWordCh(Ch(s, i - 1))
      after == i <= Len(s) /\ IsWordCh(Ch(s, i))
  IN before # after

\* the number of consecutive characters from position i that fit e
RECURSIVE Run(_, _, _)
Run(e, s, i) == IF i <= Len(s) /\ Fits(e, Ch(s, i)) THEN 1 + Run(e, s, i + 1) ELSE 0

RECURSIVE MatchFrom(_, _, _, _)
MatchFrom(pat, k, s, i) ==
  IF k > Len(pat) THEN TRUE
  ELSE LET e == pat[k] IN
    CASE e.k = "wb" -> AtWordBoundary(s, i) /\ MatchFrom(pat, k + 1, s, i)
      [] e.k = "end" -> i = Len(s) + 1 /\ MatchFrom(pat, k + 1, s, i)
      [] e.q = "1" /\ e.k \notin {"wb", "end"} ->
           i <= Len(s) /\ Fits(e, Ch(s, i)) /\ MatchFrom(pat, k + 1, s, i + 1)
      [] e.q = "?" /\ e.k \notin {"wb", "end"} ->
           \/ (i <= Len(s) /\ Fits(e, Ch(s, i)) /\ MatchFrom(pat, k + 1, s, i + 1))
           \/ MatchFrom(pat, k + 1, s, i)
      [] e.q = "*" /\ e.k \notin {"wb", "end"} ->
           \E n \in 0..Run(e, s, i) : MatchFrom(pat, k + 1, s, i + n)
      [] e.q = "+" /\ e.k \notin {"wb", "end"} ->
           \E n \in 1..Run(e, s, i) : MatchFrom(pat, k + 1, s, i + n)

\* RegExp.prototype.test: some alternative matches at some position
RegexTest(alts, s) ==
  \E pat \in alts : \E i \in 1..(Len(s) + 1) : MatchFrom(pat, 1, s, i)

(***************************************************************************)
(* The permission system.                                                  *)
(***************************************************************************)
DANGEROUS_PATTERNS == <<
  [pattern |-> { WB \o Lit("rm") \o SPlus \o Lit("-r") \o Opt("f") \o S1,
                 WB \o Lit("rm") \o SPlus \o Lit("--force") \o S1,
                 WB \o Lit("rm") \o SPlus \o Lit("-r") \o S1 },
   desc |-> "recursive/forced delete"],
  [pattern |-> { WB \o Lit("rm") \o SPlus \o DotStar \o Lit("*") },
   desc |-> "wildcard delete"],
  [pattern |-> { WB \o Lit("DROP") \o SPlus \o Lit("TABLE"),
                 WB \o Lit("DROP") \o SPlus \o Lit("DATABASE"),
                 WB \o Lit("DROP") \o SPlus \o Lit("INDEX"),
                 WB \o Lit("DROP") \o SPlus \o Lit("VIEW") },
   desc |-> "DROP statement"],
  [pattern |-> { WB \o Lit("TRUNCATE") \o SPlus \o Lit("TABLE") },
   desc |-> "TRUNCATE statement"],
  [pattern |-> { WB \o Lit("DELETE") \o SPlus \o Lit("FROM") \o SPlus \o WPlus \o SStar \o Lit(";"),
                 WB \o Lit("DELETE") \o SPlus \o Lit("FROM") \o SPlus \o WPlus \o SStar \o EOL },
   desc |-> "DELETE without WHERE"],
  [pattern |-> { WB \o Lit("git") \o SPlus \o Lit("push") \o SPlus \o DotStar \o Lit("--force") },
   desc |-> "force push"],
  [pattern |-> { WB \o Lit("git") \o SPlus \o Lit("reset") \o SPlus \o Lit("--hard") },
   desc |-> "hard reset"],
  [pattern |-> { WB \o Lit("sudo") \o S1 },
   desc |-> "sudo command"],
  [pattern |-> { WB \o Lit("chmod") \o SPlus \o Lit("777") },
   desc |-> "chmod 777"]
>>

\* the index of the first pattern the command matches, 0 when it matches none
FirstMatch(command) ==
  IF \E n \in 1..Len(DANGEROUS_PATTERNS) : RegexTest(DANGEROUS_PATTERNS[n].pattern, command)
    THEN CHOOSE n \in 1..Len(DANGEROUS_PATTERNS) :
           /\ RegexTest(DANGEROUS_PATTERNS[n].pattern, command)
           /\ \A m \in 1..(n - 1) : ~RegexTest(DANGEROUS_PATTERNS[m].pattern, command)
    ELSE 0

(***************************************************************************)
(* More of the String prototype, as the handlers use it.                   *)
(***************************************************************************)
StartsAt(s, t, i) == i + Len(t) - 1 <= Len(s) /\ SubSeq(s, i, i + Len(t) - 1) = t

\* String.prototype.includes
includes(s, t) == \E i \in 1..(Len(s) + 1) : StartsAt(s, t, i)

\* String.prototype.indexOf, 1-based; 0 when t does not occur
indexOf(s, t) ==
  IF includes(s, t)
    THEN CHOOSE i \in 1..(Len(s) + 1) :
           StartsAt(s, t, i) /\ \A j \in 1..(i - 1) : ~StartsAt(s, t, j)
    ELSE 0

\* the replacement text of String.prototype.replace: $$ stands for a dollar
\* sign, $& for the match and $' for the text after it; any other dollar
\* sign stands for itself (the texts of the model hold no backquote, and a
\* string pattern has no groups)
RECURSIVE ExpandReplacement(_, _, _)
ExpandReplacement(r, match, after) ==
  IF r = "" THEN ""
  ELSE IF StartsAt(r, "$$", 1) THEN "$" \o ExpandReplacement(SubSeq(r, 3, Len(r)), match, after)
  ELSE IF StartsAt(r, "$&", 1) THEN match \o ExpandReplacement(SubSeq(r, 3, Len(r)), match, after)
  ELSE IF StartsAt(r, "$'", 1) THEN after \o ExpandReplacement(SubSeq(r, 3, Len(r)), match, after)
  ELSE Ch(r, 1) \o ExpandReplacement(SubSeq(r, 2, Len(r)), match, after)

\* String.prototype.replace with a string pattern: the first occurrence only
replace(s, t, r) ==
  LET i == indexOf(s, t)
  IN IF i = 0 THEN s
     ELSE SubSeq(s, 1, i - 1) \o ExpandReplacement(r, t, SubSeq(s, i + Len(t), Len(s)))
          \o SubSeq(s, i + Len(t), Len(s))

\* String.prototype.split with a string separator
\* (a text is cut at a separator of one character half by half: the pieces
\* of the halves, the last of the first half joined to the first of the second)
SplitJoined(l, r) ==
  SubSeq(l, 1, Len(l) - 1) \o << l[Len(l)] \o r[1] >> \o SubSeq(r, 2, Len(r))
RECURSIVE SplitChar(_, _)
SplitChar(s, sep) ==
  IF Len(s) = 0 THEN << "" >>
  ELSE IF Len(s) = 1 THEN (IF s = sep THEN << "", "" >> ELSE << s >>)
  ELSE CHOOSE x \in {SplitJoined(l, r) : l \in {SplitChar(SubSeq(s, 1, Len(s) \div 2), sep)},
                                         r \in {SplitChar(SubSeq(s, Len(s) \div 2 + 1, Len(s)), sep)}} :
         TRUE
RECURSIVE split(_, _)
split(s, sep) ==
  IF sep = ""
    THEN [i \in 1..Len(s) |-> Ch(s, i)]
    ELSE IF Len(sep) = 1 THEN SplitChar(s, sep)
    ELSE LET i == indexOf(s, sep)
         IN IF i = 0 THEN << s >>
            ELSE << SubSeq(s, 1, i - 1) >> \o split(SubSeq(s, i + Len(sep), Len(s)), sep)

\* Array.prototype.join
RECURSIVE join(_, _)
join(parts, sep) ==
  IF Len(parts) = 0 THEN ""
  ELSE IF Len(parts) = 1 THEN parts[1]
  ELSE join(SubSeq(parts, 1, Len(parts) \div 2), sep) \o sep
         \o join(SubSeq(parts, Len(parts) \div 2 + 1, Len(parts)), sep)

\* Array.prototype.slice(from, to) with 0-based bounds: a negative bound
\* counts from the end, and both are clamped to 0..length
slice(a, from, to) ==
  LET Bound(k) == IF k < 0 THEN (IF Len(a) + k < 0 THEN 0 ELSE Len(a) + k)
                  ELSE IF k < Len(a) THEN k ELSE Len(a)
      lo == Bound(from)
      hi == Bound(to)
  IN IF lo >= hi THEN << >> ELSE SubSeq(a, lo + 1, hi)

Min(a, b) == IF a < b THEN a ELSE b
Max(a, b) == IF a > b THEN a ELSE b

\* the position of the last "/" of a path, 0 when there is none
LastSlash(p) ==
  IF InStr("/", p) THEN CHOOSE i \in 1..Len(p) :
                          Ch(p, i) = "/" /\ \A j \in (i + 1)..Len(p) : Ch(p, j) # "/"
  ELSE 0

\* path.dirname
dirname(p) ==
  LET i == LastSlash(p)
  IN IF i = 0 THEN "." ELSE IF i = 1 THEN "/" ELSE SubSeq(p, 1, i - 1)

\* path.basename
basename(p) == SubSeq(p, LastSlash(p) + 1, Len(p))

(***************************************************************************)
(* The file system the tools act on: a fixed universe of paths, each       *)
(* absent, a file with its text, or a directory; ok = FALSE marks an entry *)
(* the process has no permission on.                                       *)
(***************************************************************************)
Paths == {"/", "/b", "/b/big.json", "/w", "/w/.h", "/w/a.txt", "/w/u.txt", "/w/d.json",
          "/w/k.txt", "/w/new.txt", "/n", "/n/c.txt",
          "/w/s", "/w/s/e.json", "/w/t", "/w/t/f.txt",
          "/r", "/r/Sales by Product.json", "/r/Sales by Product & Location.json",
          "/r/x.json", "/r/y.json", "/r/l", "/r/l/Sales by Classification.json",
          "/r/l/Sales by Product per Day.json"}

\* big is empty for a file below the full-read threshold; for a file at or
\* over it, big[k] is the k-th chunk a read stream delivers, cut down: the
\* model keeps the structure of a large text and not its length
Absent == [kind |-> "none", data |-> "", ok |-> TRUE, big |-> << >>]
File(text) == [kind |-> "file", data |-> text, ok |-> TRUE, big |-> << >>]
Dir == [kind |-> "dir", data |-> "", ok |-> TRUE, big |-> << >>]

MAX_FILE_SIZE_FULL_READ == 5242880
MAX_JSON_PREVIEW_RECORDS == 100

\* stats.size
FileSize(f) == IF f.big = << >> THEN Len(f.data) ELSE MAX_FILE_SIZE_FULL_READ

\* n copies of a text
RECURSIVE Repeat(_, _)
Repeat(text, n) ==
  IF n = 0 THEN "" ELSE IF n = 1 THEN text ELSE Repeat(text, n \div 2) \o Repeat(text, n - n \div 2)

\* the chunks of a file of MAX_JSON_PREVIEW_RECORDS records and one more
BigChunks == << "[" \o Repeat("{},", MAX_JSON_PREVIEW_RECORDS), "{}]" >>

InitFs ==
  [p \in Paths |->
     CASE p \in {"/", "/w", "/b"} -> Dir
       [] p = "/b/big.json" -> [kind |-> "file", data |-> "", ok |-> TRUE,
                                big |-> BigChunks]
       [] p = "/w/.h" -> File("h")
       [] p = "/w/a.txt" -> File("xyx\nyz")
       [] p = "/w/u.txt" -> File("undefined")
       [] p = "/w/d.json" -> File("[{},{}]")
       [] p = "/w/k.txt" -> [kind |-> "file", data |-> "k", ok |-> FALSE, big |-> << >>]
       [] OTHER -> Absent]

cwd == "/w"

\* the exception message of a file-system call on path p, "" when it goes through
ReadFileError(fsys, p) ==
  IF p \notin DOMAIN fsys \/ fsys[p].kind = "none" THEN "ENOENT: no such file or directory"
  ELSE IF fsys[p].kind = "dir" THEN "EISDIR: illegal operation on a directory"
  ELSE IF ~fsys[p].ok THEN "EACCES: permission denied"
  ELSE ""

WriteFileError(fsys, p) ==
  IF p \notin DOMAIN fsys \/ fsys[dirname(p)].kind # "dir" THEN "ENOENT: no such file or directory"
  ELSE IF fsys[p].kind = "dir" THEN "EISDIR: illegal operation on a directory"
  ELSE IF ~fsys[p].ok THEN "EACCES: permission denied"
  ELSE ""

ReadDirError(fsys, p) ==
  IF p \notin DOMAIN fsys \/ fsys[p].kind = "none" THEN "ENOENT: no such file or directory"
  ELSE IF fsys[p].kind = "file" THEN "ENOTDIR: not a directory"
  ELSE IF ~fsys[p].ok THEN "EACCES: permission denied"
  ELSE ""

StatError(fsys, p) ==
  IF p \notin DOMAIN fsys \/ fsys[p].kind = "none" THEN "ENOENT: no such file or directory" ELSE ""

\* fs.mkdirSync(dir, {recursive: true})
RECURSIVE mkdirRecursive(_, _)
mkdirRecursive(fsys, d) ==
  IF d \notin DOMAIN fsys \/ fsys[d].kind = "dir" THEN fsys
  ELSE [mkdirRecursive(fsys, dirname(d)) EXCEPT ![d] = Dir]

\* fs.writeFileSync on a path that WriteFileError lets through
writeFile(fsys, p, text) == [fsys EXCEPT ![p] = File(text)]

\* the entries of directory d
Children(fsys, d) == {p \in DOMAIN fsys : p # d /\ dirname(p) = d /\ fsys[p].kind # "none"}

\* the existing paths below base, base included
IsUnder(p, base) == p = base \/ StartsAt(p, IF base = "/" THEN "/" ELSE base \o "/", 1)
Below(fsys, base) == {p \in DOMAIN fsys : fsys[p].kind # "none" /\ IsUnder(p, base)}

(***************************************************************************)
(* JavaScript values.  A string-typed slot holds a string, or one of the   *)
(* two markers below for the values null and undefined; no string of the   *)
(* program equals a marker.  NullStatus is the null exit status of a child *)
(* that was killed (exit statuses are 0..255).                             *)
(***************************************************************************)
JSnull == "<null>"
JSundefined == "<undefined>"
NullStatus == 0 - 1

\* String(n) for a natural number
RECURSIVE NumStr(_)
NumStr(n) == IF n < 10 THEN Ch(Digits, n + 1) ELSE NumStr(n \div 10) \o Ch(Digits, (n % 10) + 1)

\* String.prototype.padStart(w)
RECURSIVE padStart(_, _)
padStart(s, w) == IF Len(s) >= w THEN s ELSE padStart(" " \o s, w)

\* String(v) of a string-typed slot
StringOf(v) == IF v = JSundefined THEN "undefined" ELSE IF v = JSnull THEN "null" ELSE v

(***************************************************************************)
(* JSON.  A value is a record whose field t is num (n its value), str (s   *)
(* its text), arr (vals its elements), obj (keys its property names in     *)
(* insertion order, vals their values) or null.  The texts of              *)
(* the model use objects, arrays, strings without escapes, natural         *)
(* numbers and null, and no white space.                                   *)
(***************************************************************************)
JNum(n) == [t |-> "num", n |-> n]
JStr(s) == [t |-> "str", s |-> s]
JArr(vals) == [t |-> "arr", vals |-> vals]
JObj(keys, vals) == [t |-> "obj", keys |-> keys, vals |-> vals]
JNull == [t |-> "null"]

ParseFail == [ok |-> FALSE, v |-> JNum(0), next |-> 0]
Parsed(v, next) == [ok |-> TRUE, v |-> v, next |-> next]

\* the end of the run of digits that starts at i
RECURSIVE DigitsEnd(_, _)
DigitsEnd(text, i) ==
  IF i <= Len(text) /\ InStr(Ch(text, i), Digits) THEN DigitsEnd(text, i + 1) ELSE i

\* the value of a run of digits
RECURSIVE DigitsValue(_, _)
DigitsValue(s, acc) ==
  IF s = "" THEN acc
  ELSE DigitsValue(SubSeq(s, 2, Len(s)),
                   10 * acc + (CHOOSE d \in 0..9 : Ch(Digits, d + 1) = Ch(s, 1)))

\* the position of the first quote at or after i, 0 when there is none
RECURSIVE QuoteAt(_, _)
QuoteAt(text, i) ==
  IF i > Len(text) THEN 0 ELSE IF Ch(text, i) = "\"" THEN i ELSE QuoteAt(text, i + 1)

\* a JSON string that starts at i: its text and the position after it
ParseString(text, i) ==
  IF i > Len(text) \/ Ch(text, i) # "\"" THEN [ok |-> FALSE, s |-> "", next |-> 0]
  ELSE LET j == QuoteAt(text, i + 1)
       IN IF j = 0 THEN [ok |-> FALSE, s |-> "", next |-> 0]
          ELSE [ok |-> TRUE, s |-> SubSeq(text, i + 1, j - 1), next |-> j + 1]

\* a property set twice keeps its first place and takes the later value
SetProperty(o, k, v) ==
  IF \E i \in 1..Len(o.keys) : o.keys[i] = k
    THEN [o EXCEPT !.vals[CHOOSE i \in 1..Len(o.keys) : o.keys[i] = k] = v]
    ELSE [o EXCEPT !.keys = Append(@, k), !.vals = Append(@, v)]

RECURSIVE ParseValue(_, _)
RECURSIVE ParseMembers(_, _, _)
RECURSIVE ParseElements(_, _, _)

\* what follows a member or an element that was parsed: a comma and the
\* rest, or the closing character
AfterMember(text, r, o, k) ==
  IF ~r.ok \/ r.next > Len(text) THEN ParseFail
  ELSE IF Ch(text, r.next) = "," THEN ParseMembers(text, r.next + 1, SetProperty(o, k, r.v))
  ELSE IF Ch(text, r.next) = "}" THEN Parsed(SetProperty(o, k, r.v), r.next + 1)
  ELSE ParseFail

AfterKey(text, key, o) ==
  IF ~key.ok \/ key.next > Len(text) \/ Ch(text, key.next) # ":" THEN ParseFail
  ELSE CHOOSE x \in {AfterMember(text, r, o, key.s) : r \in {ParseValue(text, key.next + 1)}} : TRUE

ParseMembers(text, i, o) ==
  CHOOSE x \in {AfterKey(text, key, o) : key \in {ParseString(text, i)}} : TRUE

AfterElement(text, r, a) ==
  IF ~r.ok \/ r.next > Len(text) THEN ParseFail
  ELSE IF Ch(text, r.next) = "," THEN ParseElements(text, r.next + 1, Append(a, r.v))
  ELSE IF Ch(text, r.next) = "]" THEN Parsed(JArr(Append(a, r.v)), r.next + 1)
  ELSE ParseFail

ParseElements(text, i, a) ==
  CHOOSE x \in {AfterElement(text, r, a) : r \in {ParseValue(text, i)}} : TRUE

ParseValue(text, i) ==
  IF i > Len(text) THEN ParseFail
  ELSE LET c == Ch(text, i)
       IN CASE c = "{" -> IF i < Len(text) /\ Ch(text, i + 1) = "}"
                            THEN Parsed(JObj(<< >>, << >>), i + 2)
                            ELSE ParseMembers(text, i + 1, JObj(<< >>, << >>))
            [] c = "[" -> IF i < Len(text) /\ Ch(text, i + 1) = "]"
                            THEN Parsed(JArr(<< >>), i + 2)
                            ELSE ParseElements(text, i + 1, << >>)
            [] c = "\"" -> LET str == ParseString(text, i)
                           IN IF str.ok THEN Parsed(JStr(str.s), str.next) ELSE ParseFail
            [] InStr(c, Digits) ->
                 LET e == DigitsEnd(text, i)
                 IN Parsed(JNum(DigitsValue(SubSeq(text, i, e - 1), 0)), e)
            [] c = "n" -> IF i + 3 <= Len(text) /\ SubSeq(text, i, i + 3) = "null"
                            THEN Parsed(JNull, i + 4) ELSE ParseFail
            [] OTHER -> ParseFail

\* JSON.parse: ok = FALSE when it throws a SyntaxError
JSONparse(text) ==
  CHOOSE x \in {IF r.ok /\ r.next = Len(text) + 1 THEN [ok |-> TRUE, v |-> r.v]
                ELSE [ok |-> FALSE, v |-> JNum(0)] : r \in {ParseValue(text, 1)}} : TRUE

\* Array.isArray
isArray(v) == v.t = "arr"

\* Object.keys
ObjectKeys(v) ==
  CASE v.t = "obj" -> v.keys
    [] v.t = "arr" -> [i \in 1..Len(v.vals) |-> NumStr(i - 1)]
    [] v.t = "str" -> [i \in 1..Len(v.s) |-> NumStr(i - 1)]
    [] OTHER -> << >>

\* Set.prototype.add on a set kept in insertion order
SetAdd(set, k) == IF \E i \in 1..Len(set) : set[i] = k THEN set ELSE Append(set, k)

RECURSIVE SetAddAll(_, _)
SetAddAll(set, ks) ==
  IF Len(ks) = 0 THEN set
  ELSE CHOOSE all \in {SetAddAll(one, Tail(ks)) : one \in {SetAdd(set, ks[1])}} : TRUE

(***************************************************************************)
(* A ToolInvocation's params: "given" is the set of keys the agent sent,   *)
(* v their values (the default of its type for a key not given), undef     *)
(* says that the params value itself is undefined.                         *)
(***************************************************************************)
Defaults ==
  [file_path |-> "", old_string |-> "", new_string |-> "", replace_all |-> FALSE,
   content |-> "", pattern |-> "", path |-> "", type |-> "", command |-> "", cwd |-> "",
   timeout |-> 0, background |-> FALSE, description |-> "", paths |-> << >>,
   offset |-> 0, limit |-> 0, lines |-> 0, depth |-> 0, output_mode |-> "",
   case_insensitive |-> FALSE, all |-> FALSE, long |-> FALSE,
   question |-> "", options |-> << >>, todos |-> << >>, isArray |-> TRUE,
   group |-> "", fields |-> << >>, top |-> 0]

Params(rec) == [undef |-> FALSE, given |-> DOMAIN rec, v |-> rec @@ Defaults]
UndefinedParams == [undef |-> TRUE, given |-> {}, v |-> Defaults]

\* params.k as a string-typed value
Get(in, k) == IF k \in in.given THEN in.v[k] ELSE JSundefined
\* the truthiness of params.k, for a string, a number and a boolean key
HasStr(in, k) == k \in in.given /\ in.v[k] # ""
HasNum(in, k) == k \in in.given /\ in.v[k] # 0
HasBool(in, k) == k \in in.given /\ in.v[k]
\* params.k || dflt
StrOr(in, k, dflt) == IF HasStr(in, k) THEN in.v[k] ELSE dflt
NumOr(in, k, dflt) == IF HasNum(in, k) THEN in.v[k] ELSE dflt

(***************************************************************************)
(* What a handler body does: it returns a result or throws, and leaves a   *)
(* file system and the set of kinds of I/O it attempted.                   *)
(***************************************************************************)
Return(r, fsys, io) ==
  [thrown |-> FALSE, hung |-> FALSE, error |-> "", result |-> r, fs |-> fsys, io |-> io]
Throw(msg, fsys, io) ==
  [thrown |-> TRUE, hung |-> FALSE, error |-> msg, result |-> [success |-> FALSE], fs |-> fsys,
   io |-> io]
\* the handler awaits a promise that nothing will ever settle
Hang(fsys, io) ==
  [thrown |-> FALSE, hung |-> TRUE, error |-> "", result |-> [success |-> FALSE], fs |-> fsys,
   io |-> io]
Fail(msg) == [success |-> FALSE, error |-> msg]

\* the paths of the universe in directory-traversal order
PathOrder ==
  << "/", "/b", "/b/big.json",
     "/m", "/m/f01.txt", "/m/f02.txt", "/m/f03.txt", "/m/f04.txt", "/m/f05.txt", "/m/f06.txt",
     "/m/f07.txt", "/m/f08.txt", "/m/f09.txt", "/m/f10.txt", "/m/f11.txt", "/m/f12.txt",
     "/m/z", "/m/z/g.txt",
     "/n", "/n/c.txt",
     "/r", "/r/Sales by Product & Location.json", "/r/Sales by Product.json",
     "/r/l", "/r/l/Sales by Classification.json", "/r/l/Sales by Product per Day.json",
     "/r/x.json", "/r/y.json",
     "/w", "/w/.h", "/w/a.txt", "/w/d.json", "/w/k.txt", "/w/new.txt",
     "/w/s", "/w/s/e.json", "/w/t", "/w/t/f.txt", "/w/u.txt" >>
\* the members of a set of paths, in traversal order
RECURSIVE InOrderFrom(_, _)
InOrderFrom(set, i) ==
  IF i > Len(PathOrder) THEN << >>
  ELSE (IF PathOrder[i] \in set THEN << PathOrder[i] >> ELSE << >>) \o InOrderFrom(set, i + 1)
InOrder(set) == InOrderFrom(set, 1)

\* case "Read"
ReadTool(in, fsys) ==
  IF ~HasStr(in, "file_path") THEN Return(Fail("Missing file_path"), fsys, {})
  ELSE LET p == in.v.file_path
           err == ReadFileError(fsys, p)
       IN IF err # "" THEN Throw(err, fsys, {"fs.read"})
          ELSE LET lines == split(fsys[p].data, "\n")
                   offset == Max(1, NumOr(in, "offset", 1))
                   limit == Min(2000, NumOr(in, "limit", 2000))
                   subset == CHOOSE x \in {slice(lines, offset - 1, offset - 1 + limit)} : TRUE
                   numbered == [i \in 1..Len(subset) |->
                                  padStart(NumStr(offset + i - 1), 5) \o "  " \o subset[i]]
               IN Return([success |-> TRUE, content |-> join(numbered, "\n"),
                          total_lines |-> Len(lines)], fsys, {"fs.read"})

\* case "Edit"
\* a variant of EditMisses that never reports a miss
EditMissesNever(content, old) == FALSE

\* if (!content.includes(params.old_string))
EditMisses(content, old) == ~includes(content, StringOf(old))

EditTool(in, fsys) ==
  IF ~HasStr(in, "file_path") THEN Return(Fail("Missing file_path"), fsys, {})
  ELSE LET p == in.v.file_path
           err == ReadFileError(fsys, p)
           old == Get(in, "old_string")
           new == Get(in, "new_string")
       IN IF err # "" THEN Throw(err, fsys, {"fs.read"})
          ELSE LET content == fsys[p].data
               IN IF EditMisses(content, old)
                    THEN Return(Fail("String not found"), fsys, {"fs.read"})
                    ELSE LET all == IF old = JSundefined THEN << content >>
                                    ELSE split(content, old)
                             text == IF HasBool(in, "replace_all")
                                       THEN join(all, IF new = JSundefined THEN "," ELSE new)
                                       ELSE replace(content, StringOf(old), StringOf(new))
                             werr == WriteFileError(fsys, p)
                         IN IF werr # "" THEN Throw(werr, fsys, {"fs.read", "fs.write"})
                            ELSE Return([success |-> TRUE], writeFile(fsys, p, text),
                                        {"fs.read", "fs.write"})

\* case "Write"
WriteTool(in, fsys) ==
  IF ~HasStr(in, "file_path") THEN Return(Fail("Missing file_path"), fsys, {})
  ELSE LET p == in.v.file_path
           dir == dirname(p)
           made == dir \in Paths /\ fsys[dir].kind = "none"
           fs1 == IF made THEN mkdirRecursive(fsys, dir) ELSE fsys
           io1 == IF made THEN {"fs.stat", "fs.mkdir"} ELSE {"fs.stat"}
       IN IF "content" \notin in.given
            THEN Throw("The \"data\" argument must be of type string", fs1, io1)
            ELSE LET werr == WriteFileError(fs1, p)
                 IN IF werr # "" THEN Throw(werr, fs1, io1 \cup {"fs.write"})
                    ELSE Return([success |-> TRUE], writeFile(fs1, p, in.v.content),
                                io1 \cup {"fs.write"})

\* the removal of the shell metacharacters from interpolated text (the
\* backquote, which no text of the model holds, is not written here)
RECURSIVE StripMeta(_)
StripMeta(s) ==
  IF s = "" THEN ""
  ELSE (IF InStr(Ch(s, 1), "$();&|<>") THEN "" ELSE Ch(s, 1)) \o StripMeta(SubSeq(s, 2, Len(s)))

\* the -name test of find: a shell pattern with * against a base name
RECURSIVE NameMatch(_, _)
NameMatch(pat, s) ==
  IF pat = "" THEN s = ""
  ELSE IF Ch(pat, 1) = "*"
    THEN \E n \in 0..Len(s) : NameMatch(SubSeq(pat, 2, Len(pat)), SubSeq(s, n + 1, Len(s)))
    ELSE s # "" /\ Ch(pat, 1) = Ch(s, 1)
         /\ NameMatch(SubSeq(pat, 2, Len(pat)), SubSeq(s, 2, Len(s)))

\* the output lines of: find "<base>" -type <kind> -name "<name>" 2>/dev/null | head -<limit>
FindOutput(fsys, start, kind, name, limit) ==
  LET base == IF StartsAt(start, "//", 1) THEN SubSeq(start, 2, Len(start)) ELSE start IN
  slice(InOrder({p \in Paths : /\ base \in Paths
                               /\ p \in Below(fsys, base)
                               /\ fsys[p].kind = kind
                               /\ NameMatch(name, basename(p))}), 0, limit)

\* case "Glob"; status is the way the child ends (NullStatus: killed at the timeout)
GlobTool(in, fsys, status) ==
  IF ~HasStr(in, "pattern") THEN Return(Fail("Missing pattern"), fsys, {})
  ELSE LET pattern == in.v.pattern
           basePath == StripMeta(StrOr(in, "path", cwd))
           limit == NumOr(in, "limit", 100)
           kind == IF Get(in, "type") = "d" THEN "dir" ELSE "file"
           parts == split(pattern, "/")
           last == parts[Len(parts)]
           subdir == StripMeta(join(SubSeq(parts, 1, Len(parts) - 1), "/"))
           filename == IF includes(pattern, "**") THEN StripMeta(join(split(pattern, "**/"), ""))
                       ELSE IF includes(pattern, "/")
                         THEN StripMeta(IF last = "" THEN "*" ELSE last)
                       ELSE StripMeta(pattern)
           searchPath == IF ~includes(pattern, "**") /\ includes(pattern, "/") /\ subdir # ""
                           THEN basePath \o "/" \o subdir ELSE basePath
           files == FindOutput(fsys, searchPath, kind, filename, limit)
       IN IF status = NullStatus THEN Throw("spawnSync /bin/sh ETIMEDOUT", fsys, {"subprocess"})
          ELSE Return([success |-> TRUE, files |-> files, count |-> Len(files)],
                      fsys, {"subprocess"})

\* case "Glob", second definition
GlobTool2(in, fsys, status) ==
  IF ~HasStr(in, "pattern") THEN Return(Fail("Missing pattern"), fsys, {})
  ELSE LET basePath == StripMeta(StrOr(in, "path", cwd))
           parts == split(in.v.pattern, "/")
           last == parts[Len(parts)]
           filename == StripMeta(IF last = "" THEN "*" ELSE last)
       IN IF status = NullStatus THEN Throw("spawnSync /bin/sh ETIMEDOUT", fsys, {"subprocess"})
          ELSE Return([success |-> TRUE, files |-> FindOutput(fsys, basePath, "file", filename, 100)],
                      fsys, {"subprocess"})

\* the lines "path:n:text" of the files below base that contain the pattern
\* (a pattern of the model is a literal); rg leaves hidden files out
RECURSIVE GrepLines(_, _, _, _, _)
GrepLines(path, lines, i, pattern, ci) ==
  IF i > Len(lines) THEN << >>
  ELSE (IF includes(IF ci THEN toLowerCase(lines[i]) ELSE lines[i],
                    IF ci THEN toLowerCase(pattern) ELSE pattern)
          THEN << path \o ":" \o NumStr(i) \o ":" \o lines[i] >> ELSE << >>)
       \o GrepLines(path, lines, i + 1, pattern, ci)

GrepFiles(fsys, base, rg) ==
  InOrder({p \in Paths : /\ base \in Paths
                         /\ p \in Below(fsys, base)
                         /\ fsys[p].kind = "file" /\ fsys[p].ok
                         /\ (rg => Ch(basename(p), 1) # ".")})

RECURSIVE GrepOutput(_, _, _, _, _)
GrepOutput(fsys, files, pattern, ci, mode) ==
  IF Len(files) = 0 THEN << >>
  ELSE LET p == files[1]
           hits == GrepLines(p, split(fsys[p].data, "\n"), 1, pattern, ci)
       IN (CASE mode = "files" -> IF Len(hits) > 0 THEN << p >> ELSE << >>
             [] mode = "count" -> IF Len(hits) > 0 THEN << p \o ":" \o NumStr(Len(hits)) >> ELSE << >>
             [] OTHER -> hits)
          \o GrepOutput(fsys, Tail(files), pattern, ci, mode)

\* the text of output lines, each ended by a newline
RECURSIVE Unlines(_)
Unlines(ls) == IF Len(ls) = 0 THEN "" ELSE ls[1] \o "\n" \o Unlines(Tail(ls))

\* case "Grep"; rg says whether ripgrep is installed
GrepTool(in, fsys, status, rg) ==
  IF ~HasStr(in, "pattern") THEN Return(Fail("Missing pattern"), fsys, {})
  ELSE LET safePath == StripMeta(StrOr(in, "path", "."))
           base == IF safePath = "." THEN cwd ELSE safePath
           limit == NumOr(in, "limit", 50)
           mode == Get(in, "output_mode")
           out == slice(GrepOutput(fsys, GrepFiles(fsys, base, rg), in.v.pattern,
                                   HasBool(in, "case_insensitive"), mode), 0, limit)
       IN IF status = NullStatus
            THEN Return([success |-> TRUE, matches |-> "", files |-> << >>, count |-> 0],
                        fsys, {"subprocess"})
          ELSE IF mode = "files"
            THEN Return([success |-> TRUE, files |-> out, count |-> Len(out)], fsys, {"subprocess"})
          ELSE IF mode = "count"
            THEN Return([success |-> TRUE, counts |-> join(out, "\n")], fsys, {"subprocess"})
          ELSE Return([success |-> TRUE, matches |-> Unlines(out)], fsys, {"subprocess"})

\* case "Grep", second definition
GrepTool2(in, fsys, status) ==
  IF ~HasStr(in, "pattern") THEN Return(Fail("Missing pattern"), fsys, {})
  ELSE LET safePath == StripMeta(StrOr(in, "path", "."))
           base == IF safePath = "." THEN cwd ELSE safePath
           out == slice(GrepOutput(fsys, GrepFiles(fsys, base, FALSE), in.v.pattern,
                                   HasBool(in, "case_insensitive"), "content"), 0, 50)
       IN IF status = NullStatus
            THEN Return([success |-> TRUE, matches |-> ""], fsys, {"subprocess"})
            ELSE Return([success |-> TRUE, matches |-> Unlines(out)], fsys, {"subprocess"})

\* case "LS"
LSTool(in, fsys) ==
  IF ~HasStr(in, "path") THEN Return(Fail("Missing path"), fsys, {})
  ELSE LET p == in.v.path
           err == ReadDirError(fsys, p)
           shown == InOrder({e \in Children(fsys, p) :
                               HasBool(in, "all") \/ Ch(basename(e), 1) # "."})
           entries == [i \in 1..Len(shown) |->
                         LET e == shown[i]
                             entry == [name |-> basename(e),
                                       type |-> IF fsys[e].kind = "dir" THEN "dir" ELSE "file"]
                         IN IF HasBool(in, "long")
                              THEN entry @@ [size |-> FileSize(fsys[e]), modified |-> "mtime"]
                              ELSE entry]
       IN IF err # "" THEN Throw(err, fsys, {"fs.readdir"})
          ELSE Return([success |-> TRUE, entries |-> entries, count |-> Len(entries)], fsys,
                      IF HasBool(in, "long") /\ Len(shown) > 0
                        THEN {"fs.readdir", "fs.stat"} ELSE {"fs.readdir"})

\* case "LS", second definition
LSTool2(in, fsys) ==
  IF ~HasStr(in, "path") THEN Return(Fail("Missing path"), fsys, {})
  ELSE LET p == in.v.path
           err == ReadDirError(fsys, p)
           shown == InOrder(Children(fsys, p))
           entries == [i \in 1..Len(shown) |->
                         [name |-> basename(shown[i]),
                          type |-> IF fsys[shown[i]].kind = "dir" THEN "dir" ELSE "file"]]
       IN IF err # "" THEN Throw(err, fsys, {"fs.readdir"})
          ELSE Return([success |-> TRUE, entries |-> entries], fsys, {"fs.readdir"})

\* the number of directory levels of p below root (0 for root itself)
RECURSIVE DepthBelow(_, _)
DepthBelow(p, root) == IF p = root \/ p = "/" THEN 0 ELSE 1 + DepthBelow(dirname(p), root)

NotHidden(p) == Ch(basename(p), 1) # "."

\* the directories walkDir reads: the root, and the non-hidden directories
\* listed in a directory that was read, down to maxDepth
RECURSIVE Walked(_, _, _, _)
Walked(fsys, root, d, maxDepth) ==
  IF DepthBelow(d, root) > maxDepth THEN {}
  ELSE IF ReadDirError(fsys, d) # "" THEN {d}
  ELSE {d} \cup UNION {Walked(fsys, root, c, maxDepth) :
                         c \in {e \in Children(fsys, d) : fsys[e].kind = "dir" /\ NotHidden(e)}}

RECURSIVE SumSizes(_, _)
SumSizes(fsys, files) ==
  IF files = {} THEN 0
  ELSE LET f == CHOOSE x \in files : TRUE IN FileSize(fsys[f]) + SumSizes(fsys, files \ {f})

EmptySummary ==
  [records |-> << >>, totalSize |-> 0, fields |-> << >>, recordCount |-> 0, error |-> JSnull]

\* a variant of SampleOf that keeps every element
SampleOfAll(data, maxRecords) == data.vals

\* data.slice(0, maxRecords)
SampleOf(data, maxRecords) == slice(data.vals, 0, maxRecords)

\* the fields of an array: the keys of its first element
FieldsOf(data) ==
  IF Len(data.vals) > 0 THEN SetAddAll(<< >>, ObjectKeys(data.vals[1])) ELSE << >>

\* streamJsonSummary on a file below the full-read threshold
SmallJsonSummary(fsys, p, maxRecords) ==
  LET sized == [EmptySummary EXCEPT !.totalSize = FileSize(fsys[p])]
      parsed == JSONparse(fsys[p].data)
      data == parsed.v
  IN IF StatError(fsys, p) # "" THEN [EmptySummary EXCEPT !.error = StatError(fsys, p)]
     ELSE IF ReadFileError(fsys, p) # "" THEN [sized EXCEPT !.error = ReadFileError(fsys, p)]
     ELSE IF ~parsed.ok THEN [sized EXCEPT !.error = "Unexpected token in JSON"]
     ELSE IF isArray(data)
       THEN [sized EXCEPT !.recordCount = Len(data.vals),
                          !.records = SampleOf(data, maxRecords),
                          !.fields = FieldsOf(data)]
       ELSE [sized EXCEPT !.recordCount = 1, !.records = << data >>,
                          !.fields = SetAddAll(<< >>, ObjectKeys(data))]

\* the locals of the large-file branch when the stream is created;
\* recordStart is an index from 0 into buffer, -1 when no record is open
NewSampler ==
  [buffer |-> "", inArray |-> FALSE, depth |-> 0, recordStart |-> 0 - 1, recordsFound |-> 0,
   records |-> << >>, fields |-> << >>]

\* a record that closes at index i of the buffer: parsed and kept, or dropped
\* when JSON.parse throws; recordStart is reset in both cases
CloseRecord(st, i, parsed) ==
  IF parsed.ok
    THEN [st EXCEPT !.records = Append(@, parsed.v),
                    !.fields = SetAddAll(@, ObjectKeys(parsed.v)),
                    !.recordsFound = @ + 1,
                    !.recordStart = 0 - 1]
    ELSE [st EXCEPT !.recordStart = 0 - 1]

\* one turn of the loop over the buffer, at index i (from 0)
SampleChar(st, i) ==
  LET char == Ch(st.buffer, i + 1)
  IN IF char = "[" /\ ~st.inArray THEN [st EXCEPT !.inArray = TRUE]
     ELSE IF ~st.inArray THEN st
     ELSE IF char = "{"
       THEN [st EXCEPT !.recordStart = IF st.depth = 0 THEN i ELSE @, !.depth = @ + 1]
     ELSE IF char = "}"
       THEN IF st.depth - 1 = 0 /\ st.recordStart >= 0
              THEN CloseRecord([st EXCEPT !.depth = 0], i,
                               JSONparse(SubSeq(st.buffer, st.recordStart + 1, i + 1)))
              ELSE [st EXCEPT !.depth = @ - 1]
     ELSE st

\* the turns of the loop over the buffer for the indices lo .. hi - 1; once
\* recordsFound reaches maxRecords the loop is left, so that the turns that
\* remain change nothing
RECURSIVE SampleLoop(_, _, _, _)
SampleLoop(st, lo, hi, maxRecords) ==
  IF lo >= hi THEN st
  ELSE IF hi - lo = 1 THEN (IF st.recordsFound < maxRecords THEN SampleChar(st, lo) ELSE st)
  ELSE CHOOSE after \in {SampleLoop(half, (lo + hi) \div 2, hi, maxRecords) :
                             half \in {SampleLoop(st, lo, (lo + hi) \div 2, maxRecords)}} : TRUE

\* after the loop only the unprocessed part of the buffer is kept
KeepUnprocessed(st) ==
  IF st.recordStart >= 0
    THEN [st EXCEPT !.buffer = SubSeq(@, st.recordStart + 1, Len(@)), !.recordStart = 0]
    ELSE [st EXCEPT !.buffer = ""]

\* the data handler on a chunk, when it does not destroy the stream
OnData(st, chunk, maxRecords) ==
  KeepUnprocessed(SampleLoop([st EXCEPT !.buffer = @ \o chunk], 0,
                             Len(st.buffer) + Len(chunk), maxRecords))

\* the locals when the data events of chunks 1..k have been handled
RECURSIVE AfterChunks(_, _, _)
AfterChunks(chunks, k, maxRecords) ==
  IF k = 0 THEN NewSampler
  ELSE CHOOSE after \in {OnData(before, chunks[k], maxRecords) :
                            before \in {AfterChunks(chunks, k - 1, maxRecords)}} : TRUE

\* A data event that finds maxRecords records already there destroys the
\* stream: no end and no error event follows, and the promise is never
\* resolved.
LargeJsonHangs(chunks, maxRecords) ==
  \E k \in 1..(Len(chunks) - 1) : AfterChunks(chunks, k, maxRecords).recordsFound >= maxRecords

\* the end handler: the records sampled and the estimate of their number
OnEnd(st, totalSize, maxRecords) ==
  [records |-> st.records, totalSize |-> totalSize, fields |-> st.fields,
   recordCount |-> Len(st.records) * maxRecords, error |-> JSnull]

\* the error handler
OnError(st, totalSize, message) ==
  [records |-> st.records, totalSize |-> totalSize, fields |-> st.fields,
   recordCount |-> 0, error |-> message]

\* streamJsonSummary on a file at or over the threshold whose stream runs
\* to its end, or fails when it is opened
LargeJsonSummary(fsys, p, maxRecords) ==
  IF fsys[p].ok
    THEN OnEnd(AfterChunks(fsys[p].big, Len(fsys[p].big), maxRecords), FileSize(fsys[p]), maxRecords)
    ELSE OnError(NewSampler, FileSize(fsys[p]), ReadFileError(fsys, p))

\* whether the file is read through a stream
IsLarge(fsys, p) ==
  StatError(fsys, p) = "" /\ fsys[p].kind = "file" /\ ~(FileSize(fsys[p]) < MAX_FILE_SIZE_FULL_READ)

\* streamJsonSummary: whether its promise stays pending and what it resolves to
streamJsonSummary(fsys, p, maxRecords) ==
  IF IsLarge(fsys, p)
    THEN [hung |-> fsys[p].ok /\ LargeJsonHangs(fsys[p].big, maxRecords),
          summary |-> LargeJsonSummary(fsys, p, maxRecords)]
    ELSE [hung |-> FALSE, summary |-> SmallJsonSummary(fsys, p, maxRecords)]

PARALLEL_FILE_BATCH == 10

\* path.extname: from the last point of the base name, "" when there is
\* none or when it is the first character
extname(p) ==
  LET b == basename(p)
      dots == {i \in 1..Len(b) : Ch(b, i) = "."}
  IN IF dots = {} \/ dots = {1} THEN ""
     ELSE SubSeq(b, CHOOSE i \in dots : \A j \in dots : j <= i, Len(b))

\* path.join of a directory and a relative path
pathJoin(dir, rel) == IF dir = "/" THEN "/" \o rel ELSE dir \o "/" \o rel

\* full.replace(dirPath, "").replace(/^\//, "")
relPath(full, dirPath) ==
  LET cut == replace(full, dirPath, "")
  IN IF StartsAt(cut, "/", 1) THEN SubSeq(cut, 2, Len(cut)) ELSE cut

\* the results object of analyzeDirectoryParallel (processingTimeMs is left
\* out); byExtension lists the extensions in the order they were first seen
NewScan(dirPath) ==
  [path |-> dirPath, totalSize |-> 0, fileCount |-> 0, dirCount |-> 0, files |-> << >>,
   subdirs |-> << >>, byExtension |-> << >>, largestFiles |-> << >>,
   bySize |-> [small |-> 0, medium |-> 0, large |-> 0, huge |-> 0], errors |-> << >>]

\* a call of walkDir that waits for its readdir (stage readdir) or for the
\* stats of the batch of its files that starts at index i (stage stat)
WalkTask(path, depth) ==
  [path |-> path, depth |-> depth, stage |-> "readdir", files |-> << >>, dirs |-> << >>, i |-> 0,
   batch |-> << >>]

\* a variant of BatchAt that takes all the files that are left
BatchOfRest(files, i) == slice(files, i, Len(files))

\* files.slice(i, i + PARALLEL_FILE_BATCH): the files whose stats are
\* started together
BatchAt(files, i) == slice(files, i, i + PARALLEL_FILE_BATCH)

\* the category of a size
SizeClass(size) ==
  IF size < 100 * 1024 THEN "small"
  ELSE IF size < 1024 * 1024 THEN "medium"
  ELSE IF size < 50 * 1024 * 1024 THEN "large"
  ELSE "huge"

\* a variant of CountExtension that starts the entry of an extension anew
CountExtensionAnew(byExtension, ext, size) ==
  IF \E i \in 1..Len(byExtension) : byExtension[i].ext = ext
    THEN [byExtension EXCEPT ![CHOOSE i \in 1..Len(byExtension) : byExtension[i].ext = ext] =
            [ext |-> ext, count |-> 1, size |-> size]]
    ELSE Append(byExtension, [ext |-> ext, count |-> 1, size |-> size])


CountExtension(byExtension, ext, size) ==
  IF \E i \in 1..Len(byExtension) : byExtension[i].ext = ext
    THEN [byExtension EXCEPT ![CHOOSE i \in 1..Len(byExtension) : byExtension[i].ext = ext] =
            [ext |-> ext, count |-> @.count + 1, size |-> @.size + size]]
    ELSE Append(byExtension, [ext |-> ext, count |-> 1, size |-> size])

\* a variant of StatFailed that counts the file all the same
StatFailedCounted(res, p) ==
  [res EXCEPT !.errors = Append(@, [path |-> p, error |-> "ENOENT: no such file or directory"]),
              !.fileCount = @ + 1]

\* a variant of StatFailed that records nothing
StatFailedSilent(res, p) == res

\* if (s.error): the failed stat is recorded in errors and the file skipped
StatFailed(res, p) ==
  [res EXCEPT !.errors = Append(@, [path |-> p, error |-> "ENOENT: no such file or directory"])]

\* the loop over the stats of a batch, for one file: a failed stat is
\* recorded in errors, any other file is counted
StatOne(res, p, fsys, statFails, dirPath) ==
  IF p \in statFails
    THEN StatFailed(res, p)
    ELSE LET size == FileSize(fsys[p])
             ext == IF toLowerCase(extname(p)) = "" THEN "(no ext)" ELSE toLowerCase(extname(p))
         IN [res EXCEPT !.fileCount = @ + 1,
                        !.totalSize = @ + size,
                        !.byExtension = CountExtension(@, ext, size),
                        !.bySize[SizeClass(size)] = @ + 1,
                        !.largestFiles = Append(@, [path |-> p, size |-> size, name |-> basename(p)]),
                        !.files = Append(@, [name |-> basename(p), path |-> relPath(p, dirPath),
                                             size |-> size, ext |-> ext])]

RECURSIVE StatBatch(_, _, _, _, _)
StatBatch(res, batch, fsys, statFails, dirPath) ==
  IF Len(batch) = 0 THEN res
  ELSE CHOOSE all \in {StatBatch(one, Tail(batch), fsys, statFails, dirPath) :
                          one \in {StatOne(res, batch[1], fsys, statFails, dirPath)}} : TRUE

\* the entries of a directory that walkDir keeps: the files and the
\* directories that are not hidden
WalkFiles(fsys, d) ==
  LET Keep(e) == NotHidden(e) /\ fsys[e].kind = "file" IN SelectSeq(InOrder(Children(fsys, d)), Keep)
WalkDirs(fsys, d) ==
  LET Keep(e) == NotHidden(e) /\ fsys[e].kind = "dir" IN SelectSeq(InOrder(Children(fsys, d)), Keep)

\* the end of walkDir after its batches: the subdirectories are stored and
\* walkDir is called on each of them; a call deeper than maxDepth returns
\* at once
StoreSubdirs(res, dirs, dirPath) ==
  [res EXCEPT !.subdirs = @ \o [i \in 1..Len(dirs) |->
                                  [name |-> basename(dirs[i]), path |-> relPath(dirs[i], dirPath)]]]
Recurse(dirs, depth, maxDepth) ==
  IF depth + 1 > maxDepth THEN {} ELSE {WalkTask(dirs[i], depth + 1) : i \in 1..Len(dirs)}

\* Array.prototype.sort by size, largest first
RECURSIVE InsertBySize(_, _)
InsertBySize(sorted, f) ==
  IF Len(sorted) = 0 THEN << f >>
  ELSE IF sorted[1].size >= f.size THEN << sorted[1] >> \o InsertBySize(Tail(sorted), f)
  ELSE << f >> \o sorted
RECURSIVE SortBySize(_)
SortBySize(files) ==
  IF Len(files) = 0 THEN << >>
  ELSE InsertBySize(SortBySize(SubSeq(files, 1, Len(files) - 1)), files[Len(files)])

\* the JSON files analyzeDirectoryParallel samples after the walk
JsonFilesOf(res) ==
  LET IsJson(f) == f.ext = ".json"
      top == slice(SortBySize(SelectSeq(res.files, IsJson)), 0, 10)
  IN [i \in 1..Len(top) |-> pathJoin(res.path, top[i].path)]

\* jsonSummaries, in the order of its keys: the files with sampled records
RECURSIVE JsonSummaries(_, _, _)
JsonSummaries(fsys, res, paths) ==
  IF Len(paths) = 0 THEN << >>
  ELSE LET jr == streamJsonSummary(fsys, paths[1], MAX_JSON_PREVIEW_RECORDS).summary
       IN (IF Len(jr.records) > 0
             THEN << [path |-> relPath(paths[1], res.path), fields |-> jr.fields,
                      recordCount |-> jr.recordCount,
                      sampleRecords |-> slice(jr.records, 0, 3), totalSize |-> jr.totalSize] >>
             ELSE << >>)
          \o JsonSummaries(fsys, res, Tail(paths))

\* case "Scan": the counts and the errors of analyzeDirectoryParallel (the
\* lists, the histograms and the JSON summaries of its result are left out)
ScanTool(in, fsys) ==
  IF ~HasStr(in, "path") THEN Return(Fail("Missing path"), fsys, {})
  ELSE LET root == in.v.path
           maxDepth == NumOr(in, "depth", 5)
           walked == Walked(fsys, root, root, maxDepth)
           read == {d \in walked : ReadDirError(fsys, d) = ""}
           listed == UNION {Children(fsys, d) : d \in read}
           files == {e \in listed : fsys[e].kind = "file" /\ NotHidden(e)}
           dirs == {e \in listed : fsys[e].kind = "dir" /\ NotHidden(e)}
           failed == InOrder(walked \ read)
           json == {f \in files : StartsAt(f, ".json", Len(f) - 4)}
       IN IF \E f \in json : streamJsonSummary(fsys, f, MAX_JSON_PREVIEW_RECORDS).hung
            THEN Hang(fsys, {"fs.readdir", "fs.stat", "fs.read"})
          ELSE
          Return([success |-> TRUE, path |-> root,
                  fileCount |-> Cardinality(files), dirCount |-> Cardinality(dirs),
                  totalSize |-> SumSizes(fsys, files),
                  errors |-> [i \in 1..Len(failed) |->
                                [path |-> failed[i], error |-> ReadDirError(fsys, failed[i])]]],
                 fsys, {"fs.readdir"} \cup (IF files = {} THEN {} ELSE {"fs.stat"})
                       \cup (IF json = {} THEN {} ELSE {"fs.read"}))

\* case "Peek" (without the aggregate parameter)
PeekTool(in, fsys) ==
  IF ~HasStr(in, "file_path") THEN Return(Fail("Missing file_path"), fsys, {})
  ELSE LET p == in.v.file_path
           s == streamJsonSummary(fsys, p, NumOr(in, "limit", 100))
           io == IF StatError(fsys, p) # "" THEN {"fs.stat"} ELSE {"fs.stat", "fs.read"}
       IN IF s.hung THEN Hang(fsys, io)
          ELSE Return([success |-> TRUE] @@ s.summary, fsys, io)

\* what the callback of params.paths.map returns for a path; failed: the
\* read fails though the file is there
MultiEntry(fsys, p, maxLines, failed) ==
  IF ReadFileError(fsys, p) # ""
    THEN [path |-> p, success |-> FALSE, error |-> ReadFileError(fsys, p)]
  ELSE IF failed THEN [path |-> p, success |-> FALSE, error |-> "EIO: i/o error, read"]
  ELSE LET lines == split(fsys[p].data, "\n")
       IN [path |-> p, success |-> TRUE,
           content |-> join(slice(lines, 0, maxLines), "\n"),
           totalLines |-> Len(lines), truncated |-> Len(lines) > maxLines]

\* a variant of MultiFiles that lists the entries as their reads completed
MultiFilesAsCompleted(entries, completed) == [k \in 1..Len(completed) |-> entries[completed[k]]]

\* the array Promise.all resolves to: the entries by position in paths
MultiFiles(entries, completed) == [i \in 1..Len(completed) |-> entries[i]]

\* case "Multi"
MultiTool(in, fsys) ==
  IF "paths" \notin in.given \/ ~in.v.isArray
    THEN Return(Fail("Missing paths array"), fsys, {})
  ELSE LET maxLines == NumOr(in, "lines", 500)
           one(p) == MultiEntry(fsys, p, maxLines, FALSE)
       IN Return([success |-> TRUE,
                  files |-> [i \in 1..Len(in.v.paths) |-> one(in.v.paths[i])]],
                 fsys, IF Len(in.v.paths) = 0 THEN {} ELSE {"fs.read"})

\* the .json files findJsonFiles collects below a directory (hidden ones too)
JsonFilesBelow(fsys, d) ==
  {p \in Below(fsys, d) : fsys[p].kind = "file" /\ StartsAt(p, ".json", Len(p) - 4)}

\* the files findJsonFiles collects, in the order it pushes them
FindJsonFiles(fsys, p) == IF fsys[p].kind = "dir" THEN InOrder(JsonFilesBelow(fsys, p)) ELSE << p >>

\* RegExp.prototype.test of /lit(?! x| y)/i: lit occurs, in any letter case,
\* at a place where none of the excluded texts follows it
TestWithout(name, lit, excluded) ==
  LET low == toLowerCase(name)
  IN \E i \in 1..Len(low) :
       /\ StartsAt(low, toLowerCase(lit), i)
       /\ \A e \in excluded : ~StartsAt(low, toLowerCase(e), i + Len(lit))

\* the patterns of the automatic selection, in their order of preference
IsProduct(f) == TestWithout(basename(f), "Sales by Product", {" per Day", " & Location"})
IsProductLoc(f) == TestWithout(basename(f), "Sales by Product & Location", {" per Day"})
IsClassification(f) == TestWithout(basename(f), "Sales by Classification", {})
IsProductPerDay(f) == TestWithout(basename(f), "Sales by Product per Day", {})

\* the patterns of an explicit report type
TypePatterns == {"product", "invoice", "itemized", "daily"}
TestType(reportType, f) ==
  CASE reportType = "product" -> IsProduct(f)
    [] reportType = "invoice" -> TestWithout(basename(f), "Sales by Invoice", {})
    [] reportType = "itemized" -> TestWithout(basename(f), "Itemized Sales", {})
    [] reportType = "daily" -> TestWithout(basename(f), "per Day", {})

\* Array.prototype.find with one of the tests above: a sequence with the
\* file found, empty when there is none
FindProduct(files) == slice(SelectSeq(files, IsProduct), 0, 1)
FindProductLoc(files) == slice(SelectSeq(files, IsProductLoc), 0, 1)
FindClassification(files) == slice(SelectSeq(files, IsClassification), 0, 1)
FindProductPerDay(files) == slice(SelectSeq(files, IsProductPerDay), 0, 1)

\* the directories of the files, in the order of their first file
RECURSIVE Locations(_, _)
Locations(files, seen) ==
  IF Len(files) = 0 THEN seen ELSE Locations(Tail(files), SetAdd(seen, dirname(files[1])))

\* a variant of SelectInLocation that looks for the report by product and
\* location first
SelectInLocationLocFirst(files) ==
  IF Len(FindProductLoc(files)) > 0 THEN FindProductLoc(files)
  ELSE IF Len(FindProduct(files)) > 0 THEN FindProduct(files)
  ELSE IF Len(FindClassification(files)) > 0 THEN FindClassification(files)
  ELSE FindProductPerDay(files)

\* the file selected in one directory
SelectInLocation(files) ==
  IF Len(FindProduct(files)) > 0 THEN FindProduct(files)
  ELSE IF Len(FindProductLoc(files)) > 0 THEN FindProductLoc(files)
  ELSE IF Len(FindClassification(files)) > 0 THEN FindClassification(files)
  ELSE FindProductPerDay(files)

RECURSIVE SelectedFiles(_, _)
SelectedFiles(files, locs) ==
  IF Len(locs) = 0 THEN << >>
  ELSE LET InLoc(f) == dirname(f) = locs[1]
       IN SelectInLocation(SelectSeq(files, InLoc)) \o SelectedFiles(files, Tail(locs))

\* the files left by the filter on the report type
FilterByType(jsonFiles, reportType) ==
  IF reportType = "auto" /\ Len(jsonFiles) > 1
    THEN LET selectedFiles == SelectedFiles(jsonFiles, Locations(jsonFiles, << >>))
         IN IF Len(selectedFiles) > 0 THEN selectedFiles ELSE jsonFiles
  ELSE IF reportType # "auto" /\ reportType \in TypePatterns
    THEN LET Test(f) == TestType(reportType, f) IN SelectSeq(jsonFiles, Test)
  ELSE jsonFiles

\* record[k] of a record of a file: a sequence with the value, empty when
\* the record has no such property
Property(record, k) ==
  IF record.t = "obj" /\ \E i \in 1..Len(record.keys) : record.keys[i] = k
    THEN << record.vals[CHOOSE i \in 1..Len(record.keys) : record.keys[i] = k] >>
    ELSE << >>

\* the truthiness of a value (the property values of the model are numbers
\* and strings)
Truthy(v) == (v.t = "num" /\ v.n # 0) \/ (v.t = "str" /\ v.s # "") \/ v.t \in {"arr", "obj"}

\* the digits of a text
RECURSIVE OnlyDigits(_)
OnlyDigits(text) ==
  IF text = "" THEN ""
  ELSE (IF InStr(Ch(text, 1), Digits) THEN Ch(text, 1) ELSE "") \o OnlyDigits(SubSeq(text, 2, Len(text)))

\* String(record[k] || dflt)
StringOr(record, k, dflt) ==
  LET v == Property(record, k)
  IN IF Len(v) = 0 \/ ~Truthy(v[1]) THEN dflt
     ELSE IF v[1].t = "num" THEN NumStr(v[1].n)
     ELSE IF v[1].t = "str" THEN v[1].s
     ELSE "[object Object]"

\* parseFloat(String(record[f] || 0).replace(/[^0-9.-]/g, "")): a sequence
\* with the number, empty for NaN (the texts of the model hold no point and
\* no minus sign)
NumberOf(record, f) ==
  LET digits == OnlyDigits(StringOr(record, f, "0"))
  IN IF digits = "" THEN << >> ELSE << DigitsValue(digits, 0) >>

\* aggregated: the groups in the order they were created, each with its
\* key, its _count and one sum for each of sumFields
GroupIndex(aggregated, key) ==
  IF \E i \in 1..Len(aggregated) : aggregated[i].key = key
    THEN CHOOSE i \in 1..Len(aggregated) : aggregated[i].key = key
    ELSE 0

WithGroup(aggregated, key, sumFields) ==
  IF GroupIndex(aggregated, key) = 0
    THEN Append(aggregated, [key |-> key, count |-> 0, sums |-> [i \in 1..Len(sumFields) |-> 0]])
    ELSE aggregated

Counted(aggregated, g, record, sumFields) ==
  [aggregated EXCEPT ![g] =
     [key |-> @.key, count |-> @.count + 1,
      sums |-> [i \in 1..Len(sumFields) |->
                  LET val == NumberOf(record, sumFields[i])
                  IN IF Len(val) = 0 THEN @.sums[i] ELSE @.sums[i] + val[1]]]]

AddKeyed(aggregated, key, record, sumFields) ==
  CHOOSE added \in {Counted(with, GroupIndex(with, key), record, sumFields) :
                      with \in {WithGroup(aggregated, key, sumFields)}} : TRUE

AddRecord(aggregated, record, groupBy, sumFields) ==
  AddKeyed(aggregated, substring(StringOr(record, groupBy, "(unknown)"), 50), record, sumFields)

RECURSIVE AddRecords(_, _, _, _)
AddRecords(aggregated, records, groupBy, sumFields) ==
  IF Len(records) = 0 THEN aggregated
  ELSE CHOOSE all \in {AddRecords(one, Tail(records), groupBy, sumFields) :
                          one \in {AddRecord(aggregated, records[1], groupBy, sumFields)}} : TRUE

\* the first element of an array that is null, 0 when none is: record[groupBy]
\* throws a TypeError on it
NullAt(vals) ==
  IF \E i \in 1..Len(vals) : vals[i] = JNull
    THEN CHOOSE i \in 1..Len(vals) : vals[i] = JNull /\ \A j \in 1..(i - 1) : vals[j] # JNull
    ELSE 0

\* what processFile returns for a file, "" when it succeeds
ProcessFileError(fsys, f) ==
  IF StatError(fsys, f) # "" THEN StatError(fsys, f)
  ELSE IF ReadFileError(fsys, f) # "" THEN ReadFileError(fsys, f)
  ELSE IF ~JSONparse(fsys[f].data).ok THEN "Unexpected token in JSON"
  ELSE IF isArray(JSONparse(fsys[f].data).v) /\ NullAt(JSONparse(fsys[f].data).v.vals) # 0
    THEN "Cannot read properties of null"
  ELSE ""

\* the records the loop of processFile has aggregated when it ends, or when
\* it throws at the element stop
RecordsUpTo(vals, stop) == IF stop = 0 THEN vals ELSE SubSeq(vals, 1, stop - 1)

\* the records processFile aggregates from a file
RecordsOf(fsys, f) ==
  IF /\ StatError(fsys, f) = "" /\ ReadFileError(fsys, f) = ""
     /\ JSONparse(fsys[f].data).ok /\ isArray(JSONparse(fsys[f].data).v)
    THEN RecordsUpTo(JSONparse(fsys[f].data).v.vals, NullAt(JSONparse(fsys[f].data).v.vals))
    ELSE << >>

\* the aggregation when the reads of the files complete in the given order
RECURSIVE Aggregate(_, _, _, _, _)
Aggregate(aggregated, fsys, order, groupBy, sumFields) ==
  IF Len(order) = 0 THEN aggregated
  ELSE CHOOSE all \in {Aggregate(one, fsys, Tail(order), groupBy, sumFields) :
                          one \in {AddRecords(aggregated, RecordsOf(fsys, order[1]), groupBy,
                                              sumFields)}} : TRUE

RECURSIVE SumOf(_, _)
SumOf(numbers, i) == IF i > Len(numbers) THEN 0 ELSE numbers[i] + SumOf(numbers, i + 1)

\* the value a group is ranked by: sums[m], or _count when m = 0
MainValue(g, m) == IF m = 0 THEN g.count ELSE g.sums[m]

\* Array.prototype.sort by that value, largest first: the sort is stable
RECURSIVE InsertSorted(_, _, _)
InsertSorted(sorted, g, m) ==
  IF Len(sorted) = 0 THEN << g >>
  ELSE IF MainValue(sorted[1], m) >= MainValue(g, m)
    THEN << sorted[1] >> \o InsertSorted(Tail(sorted), g, m)
  ELSE << g >> \o sorted
RECURSIVE SortDescending(_, _)
SortDescending(groups, m) ==
  IF Len(groups) = 0 THEN << >>
  ELSE InsertSorted(SortDescending(SubSeq(groups, 1, Len(groups) - 1), m), groups[Len(groups)], m)

\* formatBytes; toFixed(d) of a quotient rounds it to d decimals
Fixed(bytes, unit, d) ==
  LET scale == IF d = 1 THEN 10 ELSE 100
      q == (2 * bytes * scale + unit) \div (2 * unit)
  IN NumStr(q \div scale) \o "."
     \o (IF d = 2 /\ q % scale < 10 THEN "0" ELSE "") \o NumStr(q % scale)
formatBytes(bytes) ==
  IF bytes < 1024 THEN NumStr(bytes) \o " B"
  ELSE IF bytes < 1024 * 1024 THEN Fixed(bytes, 1024, 1) \o " KB"
  ELSE IF bytes < 1024 * 1024 * 1024 THEN Fixed(bytes, 1024 * 1024, 1) \o " MB"
  ELSE Fixed(bytes, 1024 * 1024 * 1024, 2) \o " GB"

\* a variant of LargestFiles that cuts the list as the walk left it
LargestFilesUnsorted(list) ==
  LET top == slice(list, 0, 10)
  IN [i \in 1..Len(top) |->
        [path |-> top[i].path, size |-> top[i].size, name |-> top[i].name,
         sizeFormatted |-> formatBytes(top[i].size)]]

\* results.largestFiles after the walk: sorted by size, largest first, cut
\* to ten entries, each with its size formatted
LargestFiles(list) ==
  LET top == slice(SortBySize(list), 0, 10)
  IN [i \in 1..Len(top) |->
        [path |-> top[i].path, size |-> top[i].size, name |-> top[i].name,
         sizeFormatted |-> formatBytes(top[i].size)]]

\* the orders of a sequence
Orders(seq) ==
  {o \in [1..Len(seq) -> {seq[i] : i \in 1..Len(seq)}] :
     \A i, j \in 1..Len(seq) : i # j => o[i] # o[j]}

RECURSIVE TotalSizeOf(_, _, _)
TotalSizeOf(fsys, files, i) ==
  IF i > Len(files) THEN 0
  ELSE (IF StatError(fsys, files[i]) = "" THEN FileSize(fsys[files[i]]) ELSE 0)
       + TotalSizeOf(fsys, files, i + 1)

\* the path of case "Sum" can be walked: statSync and every readdirSync go through
SumPathError(fsys, p) ==
  IF StatError(fsys, p) # "" THEN StatError(fsys, p)
  ELSE IF \E d \in Below(fsys, p) : fsys[d].kind = "dir" /\ ReadDirError(fsys, d) # ""
    THEN "EACCES: permission denied"
  ELSE ""

\* the files case "Sum" processes
SumFiles(in, fsys) ==
  IF ~HasStr(in, "path") \/ SumPathError(fsys, in.v.path) # "" THEN << >>
  ELSE FilterByType(FindJsonFiles(fsys, in.v.path), StrOr(in, "type", "auto"))

DefaultSumFields == << "Gross Sales", "Items Sold", "Net Sold" >>

\* the groups of case "Sum" when the reads of the files complete in the
\* given order (the files of the model fill no more than one batch)
SumGroups(in, fsys, order) ==
  Aggregate(<< >>, fsys, order, StrOr(in, "group", "Product"),
            IF "fields" \in in.given THEN in.v.fields ELSE DefaultSumFields)

\* the ranking of the groups
Ranking(aggregated, sumFields, topN) ==
  slice(SortDescending(aggregated, IF Len(sumFields) > 0 /\ sumFields[1] # "" THEN 1 ELSE 0),
        0, topN)

\* allResults.reduce((sum, r) => sum + (r[f] || 0), 0) for each of sumFields
SumsOver(allResults, sumFields) ==
  [i \in 1..Len(sumFields) |-> SumOf([g \in 1..Len(allResults) |-> allResults[g].sums[i]], 1)]

\* a variant of Totals over the groups of a ranking of one entry
TotalsOfRanking(allResults, sumFields, totalRecords) ==
  [count |-> totalRecords, sums |-> SumsOver(Ranking(allResults, sumFields, 1), sumFields)]

\* the totals over the groups of the sequence allResults
Totals(allResults, sumFields, totalRecords) ==
  [count |-> totalRecords, sums |-> SumsOver(allResults, sumFields)]

\* case "Sum" (the chart of the result, made of its ranking, is left out)
SumTool(in, fsys, order) ==
  IF ~HasStr(in, "path") THEN Return(Fail("Missing path"), fsys, {})
  ELSE IF StatError(fsys, in.v.path) # ""
    THEN Return(Fail("Path error: " \o StatError(fsys, in.v.path)), fsys, {"fs.stat"})
  ELSE IF SumPathError(fsys, in.v.path) # ""
    THEN Return(Fail("Path error: " \o SumPathError(fsys, in.v.path)), fsys,
                {"fs.stat", "fs.readdir"})
  ELSE LET groupBy == StrOr(in, "group", "Product")
           sumFields == IF "fields" \in in.given THEN in.v.fields ELSE DefaultSumFields
           topN == NumOr(in, "top", 20)
           jsonFiles == SumFiles(in, fsys)
           aggregated == SumGroups(in, fsys, order)
           totalRecords == SumOf([i \in 1..Len(jsonFiles) |-> Len(RecordsOf(fsys, jsonFiles[i]))], 1)
       IN Return([success |-> TRUE, groupBy |-> groupBy, sumFields |-> sumFields,
                  filesProcessed |-> Len(jsonFiles),
                  filesUsed |-> [i \in 1..Len(jsonFiles) |-> basename(jsonFiles[i])],
                  totalRecords |-> totalRecords,
                  totalSizeFormatted |-> formatBytes(TotalSizeOf(fsys, jsonFiles, 1)),
                  results |-> Ranking(aggregated, sumFields, topN),
                  totals |-> Totals(aggregated, sumFields, totalRecords)],
                 fsys, {"fs.stat", "fs.readdir"}
                       \cup (IF Len(jsonFiles) = 0 THEN {} ELSE {"fs.read"}))

\* case "TodoWrite": the list is kept in ctx.todos and printed
TodoWriteTool(in, fsys) ==
  IF "todos" \notin in.given \/ ~in.v.isArray
    THEN Return(Fail("Missing todos array"), fsys, {})
  ELSE LET done == Cardinality({i \in 1..Len(in.v.todos) : in.v.todos[i].status = "completed"})
       IN Return([success |-> TRUE,
                  message |-> "Updated todo list: " \o NumStr(done) \o "/"
                              \o NumStr(Len(in.v.todos)) \o " completed",
                  todos |-> in.v.todos], fsys, {"stdout"})

(***************************************************************************)
(* The dispatcher.                                                         *)
(***************************************************************************)
KnownTools == {"Read", "Edit", "Write", "Glob", "Grep", "Bash", "LS", "Scan", "Peek",
               "Multi", "Sum", "TodoWrite", "AskUser"}
KnownTools2 == {"Read", "Edit", "Write", "Glob", "Grep", "Bash", "LS"}

\* the ways a child process ends: exit status 0, exit status 1, killed at the timeout
Statuses == {0, 1, NullStatus}

\* the catch of executeTool: what the body throws becomes a result
Caught(o) == IF o.thrown THEN [o EXCEPT !.thrown = FALSE, !.result = Fail(o.error)] ELSE o

\* the handlers that run to their result without the terminal: the set of
\* the outcomes the environment allows (first definition of executeTool)
HandlerOutcomes(name, in, fsys) ==
  IF name \notin KnownTools THEN {Return(Fail("Unknown tool: " \o name), fsys, {})}
  ELSE IF in.undef THEN {Throw("Cannot read properties of undefined", fsys, {})}
  ELSE CASE name = "Read" -> {ReadTool(in, fsys)}
         [] name = "Edit" -> {EditTool(in, fsys)}
         [] name = "Write" -> {WriteTool(in, fsys)}
         [] name = "Glob" -> {GlobTool(in, fsys, st) : st \in {0, NullStatus}}
         [] name = "Grep" -> {GrepTool(in, fsys, st, rg) : st \in {0, NullStatus}, rg \in BOOLEAN}
         [] name = "LS" -> {LSTool(in, fsys)}
         [] name = "Scan" -> {ScanTool(in, fsys)}
         [] name = "Peek" -> {PeekTool(in, fsys)}
         [] name = "Multi" -> {MultiTool(in, fsys)}
         [] name = "Sum" -> {SumTool(in, fsys, order) : order \in Orders(SumFiles(in, fsys))}
         [] name = "TodoWrite" -> {TodoWriteTool(in, fsys)}
         [] name = "Bash" -> {Return(Fail("Missing command"), fsys, {})}
         [] name = "AskUser" -> {Return(Fail("Missing question"), fsys, {})}

\* the same for the second definition of executeTool
HandlerOutcomes2(name, in, fsys) ==
  IF name \notin KnownTools2 THEN {Return(Fail("Unknown tool: " \o name), fsys, {})}
  ELSE IF in.undef THEN {Throw("Cannot read properties of undefined", fsys, {})}
  ELSE CASE name = "Read" -> {ReadTool(in, fsys)}
         [] name = "Edit" -> {EditTool(in, fsys)}
         [] name = "Write" -> {WriteTool(in, fsys)}
         [] name = "Glob" -> {GlobTool2(in, fsys, st) : st \in {0, NullStatus}}
         [] name = "Grep" -> {GrepTool2(in, fsys, st) : st \in {0, NullStatus}}
         [] name = "LS" -> {LSTool2(in, fsys)}
         [] name = "Bash" -> {Return(Fail("Missing command"), fsys, {})}

\* the handlers that wait for asynchronous I/O before they return
AsyncTools == {"Scan", "Peek", "Multi", "Sum"}

DefaultTimeout == 120000
MaxTimeout == 600000
MaxTimeout2 == 300000

\* the result of the synchronous run (spawnSync) in case "Bash"
BashSyncResult(in, status) ==
  [success |-> status = 0,
   stdout |-> IF status = 0 THEN "out" ELSE "",
   stderr |-> IF status = 1 THEN "err" ELSE "",
   exit_code |-> status,
   description |-> Get(in, "description")]

\* the result of the synchronous run in case "Bash", second definition
BashSyncResult2(in, status) ==
  [success |-> status = 0,
   stdout |-> IF status = 0 THEN "out" ELSE "",
   stderr |-> IF status = 1 THEN "err" ELSE "",
   exit_code |-> status]

\* the result of the detached run (spawn) in case "Bash"; pid is JSundefined
\* when the child could not be started
BashBackgroundResult(pid) ==
  [success |-> TRUE, background |-> TRUE, pid |-> pid,
   message |-> "Started in background with PID " \o StringOf(pid)]

CancelledResult == [success |-> FALSE, error |-> "Operation cancelled by user", cancelled |-> TRUE]

\* the commands of the model, each with the first pattern it matches
Commands == {"ls", "rm -rf /", "sleep 9", "sudo ls", "RM -R x", "rm -fr /",
             "git push origin --force", "rm a*", "xrm -rf /", "drop table t"}
FirstMatchOf == [c \in Commands |-> FirstMatch(c)]

\* a gate that tests the patterns whatever the flag says
GateCheckAlways(skip, command) ==
  [tested |-> IF FirstMatchOf[command] = 0 THEN Len(DANGEROUS_PATTERNS) ELSE FirstMatchOf[command],
   match |-> FirstMatchOf[command], prompt |-> FirstMatchOf[command] # 0]

\* a gate that asks about every command when the flag is unset
GateCheckAsksAll(skip, command) ==
  IF skip THEN [tested |-> 0, match |-> 0, prompt |-> FALSE]
  ELSE LET m == IF FirstMatchOf[command] = 0 THEN Len(DANGEROUS_PATTERNS) ELSE FirstMatchOf[command]
       IN [tested |-> m, match |-> m, prompt |-> TRUE]

\* checkDangerousOperation up to its return or its prompt: the number of
\* patterns tested, the pattern matched (0: none) and whether it prompts
GateCheck(skip, command) ==
  IF skip THEN [tested |-> 0, match |-> 0, prompt |-> FALSE]
  ELSE LET m == FirstMatchOf[command]
       IN [tested |-> IF m = 0 THEN Len(DANGEROUS_PATTERNS) ELSE m,
           match |-> m, prompt |-> m # 0]

\* a prompt that takes every answer but n and no for a yes
PromptAllowsUnlessNo(answer) == toLowerCase(answer) \notin {"n", "no"}

\* the value the prompt resolves to
PromptAllows(answer) == toLowerCase(answer) = "y" \/ toLowerCase(answer) = "yes"

\* parseInt of a line of input: its leading digits, 0 when there are none
\* (NaN fails the comparisons of the caller as 0 does)
RECURSIVE LeadingNumber(_, _)
LeadingNumber(s, acc) ==
  IF s # "" /\ InStr(Ch(s, 1), Digits)
    THEN LeadingNumber(SubSeq(s, 2, Len(s)),
                       10 * acc + (CHOOSE d \in 0..9 : Ch(Digits, d + 1) = Ch(s, 1)))
    ELSE acc
parseInt(s) == LeadingNumber(s, 0)

\* the result AskUser resolves to
AskUserResult(in, answer) ==
  LET num == parseInt(answer)
  IN IF num > 0 /\ num <= Len(in.v.options)
       THEN [success |-> TRUE, answer |-> in.v.options[num]]
       ELSE [success |-> TRUE, answer |-> IF answer = "" THEN "(no answer)" ELSE answer]

\* JSON.stringify of a result, as a JSON value: a key whose value is
\* undefined is left out
MaybeUndefined == {"description", "pid"}
JSONstringify(r) ==
  [k \in {f \in DOMAIN r : ~(f \in MaybeUndefined /\ r[f] = JSundefined)} |-> r[k]]

\* an entry that is keyed by the name of the tool
ToolResultEntryByName(tool, result) ==
  [tool_use_id |-> tool.name, content |-> JSONstringify(result)]

\* the entry of tool_results for one invocation
ToolResultEntry(tool, result) == [tool_use_id |-> tool.id, content |-> JSONstringify(result)]

(***************************************************************************)
(* Bounds and inputs.                                                      *)
(***************************************************************************)
MaxTools == 2      \* the longest pending_tools array of a pause
MaxPauses == 2     \* the pauses for tools of one run
MaxLongPauses == 1 \* the pauses of one run that ask for up to MaxTools invocations
MaxTurns == 2      \* the messages submitted in one run
MaxText == 1       \* the text chunks of one response

Call(name, rec) == [name |-> name, input |-> Params(rec)]

\* the invocations an agent turn asks for
TurnCalls ==
  { Call("Read", [file_path |-> "/w/a.txt"]),
    Call("Bash", [command |-> "rm -rf /"]) }

\* the invocations the dispatcher is tried on
ToolCalls ==
  TurnCalls \cup
  { Call("Bash", [command |-> "ls"]),
    Call("Scan", [path |-> "/w"]),
    Call("Write", [file_path |-> "/n/c.txt", content |-> "hi"]),
    Call("AskUser", [question |-> "which?", options |-> << "one", "two" >>]),
    [name |-> "Read", input |-> UndefinedParams],
    [name |-> "Nope", input |-> UndefinedParams],
    Call("Nope", [file_path |-> "/w/a.txt"]),
    Call("Read", [offset |-> 2]),
    Call("Read", [file_path |-> "/w/a.txt", offset |-> 2, limit |-> 1]),
    Call("Read", [file_path |-> "/n/c.txt"]),
    Call("Read", [file_path |-> "/w/k.txt"]),
    Call("Read", [file_path |-> "/w"]),
    Call("Edit", [old_string |-> "x", new_string |-> "y"]),
    Call("Edit", [file_path |-> "/w/a.txt", old_string |-> "x", new_string |-> "Q"]),
    Call("Edit", [file_path |-> "/w/a.txt", old_string |-> "x", new_string |-> "Q", replace_all |-> TRUE]),
    Call("Edit", [file_path |-> "/w/a.txt", old_string |-> "nothere", new_string |-> "Q"]),
    Call("Edit", [file_path |-> "/w/a.txt", old_string |-> "x"]),
    Call("Edit", [file_path |-> "/w/u.txt", new_string |-> "x"]),
    Call("Edit", [file_path |-> "/n/c.txt", old_string |-> "x", new_string |-> "Q"]),
    Call("Write", [content |-> "hi"]),
    Call("Write", [file_path |-> "/n/c.txt"]),
    Call("Write", [file_path |-> "/w/new.txt", content |-> "[]"]),
    Call("Write", [file_path |-> "/w/k.txt", content |-> "hi"]),
    Call("Glob", [path |-> "/w"]),
    Call("Glob", [pattern |-> "*.txt"]),
    Call("Glob", [pattern |-> "**/*.json", path |-> "/"]),
    Call("Glob", [pattern |-> "*.txt", path |-> "/n"]),
    Call("Grep", [path |-> "/w"]),
    Call("Grep", [pattern |-> "y"]),
    Call("Grep", [pattern |-> "nothere", path |-> "/w", output_mode |-> "files"]),
    Call("Grep", [pattern |-> "Y", case_insensitive |-> TRUE, output_mode |-> "count"]),
    Call("Bash", [cwd |-> "/w"]),
    Call("Bash", [command |-> "ls", description |-> "list", timeout |-> 700000]),
    Call("Bash", [command |-> "sleep 9", background |-> TRUE]),
    Call("Bash", [command |-> "sudo ls", background |-> TRUE]),
    Call("Bash", [command |-> "RM -R x"]),
    Call("Bash", [command |-> "rm -fr /"]),
    Call("Bash", [command |-> "git push origin --force"]),
    Call("LS", [all |-> TRUE]),
    Call("LS", [path |-> "/w", long |-> TRUE]),
    Call("LS", [path |-> "/n"]),
    Call("LS", [path |-> "/w/a.txt"]),
    Call("Scan", [depth |-> 1]),
    Call("Scan", [path |-> "/n"]),
    Call("Scan", [path |-> "/", depth |-> 1]),
    Call("Peek", [limit |-> 1]),
    Call("Peek", [file_path |-> "/w/d.json", limit |-> 1]),
    Call("Peek", [file_path |-> "/n/c.txt"]),
    Call("Peek", [file_path |-> "/w/a.txt"]),
    Call("Peek", [file_path |-> "/b/big.json"]),
    Call("Peek", [file_path |-> "/b/big.json", limit |-> 101]),
    Call("Multi", [lines |-> 1]),
    Call("Multi", [paths |-> << "/w/a.txt", "/n/c.txt" >>, lines |-> 1]),
    Call("Multi", [paths |-> << >>, isArray |-> FALSE]),
    Call("Sum", [type |-> "auto"]),
    Call("Sum", [path |-> "/w"]),
    Call("Sum", [path |-> "/n"]),
    Call("TodoWrite", [isArray |-> TRUE]),
    Call("TodoWrite", [todos |-> << [content |-> "a", status |-> "completed"],
                                   [content |-> "b", status |-> "pending"] >>]),
    Call("AskUser", [options |-> << "one" >>]),
    Call("AskUser", [question |-> "name?"]) }

\* the lines a user types at a prompt of the terminal
Answers == {"y", "Y", "yes", "YeS", "n", "", "2"}

\* the ids the agent gives the invocations of one pause, by position
ToolIds == << "tu_7", "tu_3", "tu_7", "tu_5" >>

\* the sequences of 1..n members of S
SeqsUpTo(S, n) == UNION {[1..k -> S] : k \in 1..n}

VARIABLES
  build,         \* 1: the first definitions of src/lisa.js (2.2.0), 2: the second (2.0.0)
  pc,            \* where the program is: boot, idle, send, stream, tools, finished, failed, exited
  mode,          \* none, interactive or single (one query from the command line)
  ctx,           \* the session context: dangerouslySkipPermissions, history, todos
  isProcessing,  \* the flag of interactive() that a submit is being handled
  inputBuffer,   \* the line being typed in interactive mode
  submits,       \* the number of messages submitted so far
  userMessage,   \* the userMessage parameter of the running streamResponse
  fullText,      \* the fullText of the running streamResponse
  pendingTools,  \* the pending_tools of the pause being handled
  results,       \* the results array of the pause being handled
  acts,          \* the calls of executeTool of this pause, by position in pendingTools
  stdin,         \* the terminal input: isTTY, isRaw, the open readline interfaces
  fs,            \* the file system
  procs,         \* the child processes started in the pause being handled
  request,       \* the request to the agent that is in flight
  pauses,        \* the pauses for tools so far
  job,           \* a function of the tools applied on its own: its name, arguments, environment
  out            \* the locals and the result of that application

vars == << build, pc, mode, ctx, isProcessing, inputBuffer, submits, userMessage, fullText,
           pendingTools, results, acts, stdin, fs, procs, request, pauses, job, out >>

NoActs == [i \in {} |-> 0]
NoGate == [evaluated |-> FALSE, skip |-> FALSE, tested |-> 0, match |-> 0, warned |-> FALSE,
           prompted |-> FALSE, answered |-> FALSE, answer |-> "", allowed |-> FALSE, raw |-> FALSE]
NoRequest == [sent |-> FALSE, message |-> JSnull, tool_results |-> << >>, continuation |-> FALSE]

NoJob == [op |-> "none"]
Idle == [st |-> "idle"]

\* the program before main() runs
InitProgram ==
  /\ build \in {1, 2}
  /\ pc = "boot"
  /\ mode = "none"
  /\ ctx = [dangerouslySkipPermissions |-> FALSE, history |-> << >>, todos |-> << >>]
  /\ isProcessing = FALSE
  /\ inputBuffer = ""
  /\ submits = 0
  /\ userMessage = JSnull
  /\ fullText = ""
  /\ pendingTools = << >>
  /\ results = << >>
  /\ acts = NoActs
  /\ stdin \in [isTTY : BOOLEAN, isRaw : {FALSE}, readers : {0}]
  /\ procs = << >>
  /\ request = NoRequest
  /\ pauses = 0

Init == InitProgram /\ fs = InitFs /\ job = NoJob /\ out = Idle

(***************************************************************************)
(* main and interactive().                                                 *)
(***************************************************************************)
Running == pc \notin {"boot", "finished", "failed", "exited"}

\* sendMessage of the first definition calls message.match: a null message throws
SendThrows(b, message) == b = 1 /\ message = JSnull

\* the caller of sendMessage and streamResponse goes on: submit() clears
\* isProcessing and shows the prompt, main() ends the process.  The locals
\* of the turn are gone.
ReturnToCaller(ok) ==
  /\ pc' = IF mode = "interactive" THEN "idle" ELSE IF ok THEN "finished" ELSE "failed"
  /\ isProcessing' = FALSE
  /\ userMessage' = JSnull
  /\ fullText' = ""
  /\ pendingTools' = << >>
  /\ results' = << >>
  /\ acts' = NoActs
  /\ procs' = << >>
  /\ request' = NoRequest

\* main(): the flag is set from the arguments (parseArgs of the second
\* definition knows no such argument), then interactive mode or one query
Main(skipArg, message) ==
  /\ pc = "boot"
  /\ ctx' = [ctx EXCEPT !.dangerouslySkipPermissions = IF build = 1 THEN skipArg ELSE @]
  /\ IF message = ""
       THEN /\ mode' = "interactive"
            /\ pc' = "idle"
            /\ stdin' = [stdin EXCEPT !.isRaw = IF stdin.isTTY THEN TRUE ELSE @]
            /\ UNCHANGED << request, userMessage, submits >>
       ELSE /\ mode' = "single"
            /\ pc' = "send"
            /\ request' = [sent |-> TRUE, message |-> message, tool_results |-> << >>,
                           continuation |-> FALSE]
            /\ userMessage' = message
            /\ submits' = submits + 1
            /\ UNCHANGED stdin
  /\ UNCHANGED << job, out, build, isProcessing, inputBuffer, fullText, pendingTools, results,
                  acts, fs, procs, pauses >>

\* a keypress handler without its guard
KeypressHandledAlways(processing) == TRUE

\* the guard of the keypress handler
KeypressHandled(processing) == ~processing

\* a printable key
KeyChar ==
  /\ mode = "interactive" /\ Running
  /\ KeypressHandled(isProcessing)
  /\ inputBuffer = ""
  /\ inputBuffer' = "q"
  /\ UNCHANGED << job, out, build, pc, mode, ctx, isProcessing, submits, userMessage, fullText,
                  pendingTools, results, acts, stdin, fs, procs, request, pauses >>

\* the return key on a line that is a message: submit().  A submit that
\* starts while a turn is running is counted and not followed further.
KeyReturn ==
  /\ mode = "interactive" /\ Running
  /\ KeypressHandled(isProcessing)
  /\ inputBuffer # ""
  /\ submits < MaxTurns
  /\ inputBuffer' = ""
  /\ isProcessing' = TRUE
  /\ submits' = submits + 1
  /\ IF pc = "idle"
       THEN /\ pc' = "send"
            /\ request' = [sent |-> TRUE, message |-> inputBuffer, tool_results |-> << >>,
                           continuation |-> FALSE]
            /\ userMessage' = inputBuffer
            /\ fullText' = ""
       ELSE UNCHANGED << pc, request, userMessage, fullText >>
  /\ UNCHANGED << job, out, build, mode, ctx, pendingTools, results, acts, stdin, fs, procs, pauses >>

\* Ctrl+C: clears the line, or ends the process on an empty line
KeyCtrlC ==
  /\ mode = "interactive" /\ Running
  /\ KeypressHandled(isProcessing)
  /\ IF inputBuffer # ""
       THEN inputBuffer' = "" /\ pc' = pc
       ELSE inputBuffer' = inputBuffer /\ pc' = "exited"
  /\ UNCHANGED << job, out, build, mode, ctx, isProcessing, submits, userMessage, fullText,
                  pendingTools, results, acts, stdin, fs, procs, request, pauses >>

(***************************************************************************)
(* sendMessage and streamResponse.                                         *)
(***************************************************************************)
\* the request is answered: streamResponse starts on the response; the
\* frame of the streamResponse that sent it has nothing left to do
Response ==
  /\ pc = "send"
  /\ pc' = "stream"
  /\ request' = NoRequest
  /\ pendingTools' = << >>
  /\ results' = << >>
  /\ acts' = NoActs
  /\ procs' = << >>
  /\ UNCHANGED << job, out, build, mode, ctx, isProcessing, inputBuffer, submits, userMessage, fullText,
                  stdin, fs, pauses >>

\* fetch fails or the status is not ok: sendMessage throws
ResponseFails ==
  /\ pc = "send"
  /\ ReturnToCaller(FALSE)
  /\ UNCHANGED << job, out, build, mode, ctx, inputBuffer, submits, stdin, fs, pauses >>

\* a text event
EvText ==
  /\ pc = "stream"
  /\ Len(fullText) < MaxText
  /\ fullText' = fullText \o "t"
  /\ UNCHANGED << job, out, build, pc, mode, ctx, isProcessing, inputBuffer, submits, userMessage,
                  pendingTools, results, acts, stdin, fs, procs, request, pauses >>

\* a pause_for_tools event with a pending_tools array that is not empty
EvPause(calls) ==
  /\ pc = "stream"
  /\ pauses < MaxPauses
  /\ pc' = "tools"
  /\ pendingTools' = [i \in 1..Len(calls) |->
                        [id |-> ToolIds[i], name |-> calls[i].name, input |-> calls[i].input]]
  /\ results' = << >>
  /\ acts' = NoActs
  /\ pauses' = pauses + 1
  /\ UNCHANGED << job, out, build, mode, ctx, isProcessing, inputBuffer, submits, userMessage, fullText,
                  stdin, fs, procs, request >>

\* an error event: streamResponse returns at once
EvError ==
  /\ pc = "stream"
  /\ ReturnToCaller(TRUE)
  /\ UNCHANGED << job, out, build, mode, ctx, inputBuffer, submits, stdin, fs, pauses >>

\* a variant of StoreTodos in which the tool also switches the checks off
StoreTodosAndSkip(c, todos) == [c EXCEPT !.todos = todos, !.dangerouslySkipPermissions = TRUE]

\* ctx.todos = params.todos
StoreTodos(c, todos) == [c EXCEPT !.todos = todos]

\* ctx.history after the update at the end of streamResponse
HistoryAfter(history, message, text) ==
  LET h1 == IF message # JSnull /\ message # ""
              THEN Append(history, [role |-> "user", content |-> message]) ELSE history
      h2 == IF text # "" THEN Append(h1, [role |-> "assistant", content |-> text]) ELSE h1
  IN IF Len(h2) > 20 THEN SubSeq(h2, Len(h2) - 19, Len(h2)) ELSE h2

\* the event stream ends: the history is updated and streamResponse returns
EvEnd ==
  /\ pc = "stream"
  /\ ctx' = [ctx EXCEPT !.history = HistoryAfter(ctx.history, userMessage, fullText)]
  /\ ReturnToCaller(TRUE)
  /\ UNCHANGED << job, out, build, mode, inputBuffer, submits, stdin, fs, pauses >>

(***************************************************************************)
(* The loop over pending_tools and executeTool.  acts[i] is the call of    *)
(* executeTool for pendingTools[i]: st says where it stands (prompt: at    *)
(* the permission prompt, ask: at the question of AskUser, await: waiting  *)
(* for asynchronous I/O, hung: waiting for a promise that will never be    *)
(* settled, settled: resolved with result, rejected: the                   *)
(* promise rejected, consumed: its result was pushed to results and the    *)
(* call is over), io the kinds of I/O it attempted, gate what              *)
(* checkDangerousOperation did for it, spawned the children it started.    *)
(***************************************************************************)
\* a loop that starts its calls without awaiting them
CanStartUnawaited(i) == i \notin DOMAIN acts

\* the for loop awaits each call: the next one starts after the last result
CanStart(i) == i = Len(results) + 1 /\ i \notin DOMAIN acts

Act(st, result, io, gate, spawned) ==
  [st |-> st, result |-> result, io |-> io, gate |-> gate, spawned |-> spawned]

\* how a child that spawnSync waited for ended: by itself, or killed when
\* the timeout ran out (its status is then null)
EndOf(status) == IF status = NullStatus THEN "killed at timeout" ELSE "exited"

\* the ways the run of a command in case "Bash" ends: the result and the
\* child process (no command of the model changes a path of the model: rm
\* refuses to remove the root); a detached child is left running
BashOutcomes(in) ==
  IF HasBool(in, "background")
    THEN {[result |-> BashBackgroundResult(IF ok THEN "4242" ELSE JSundefined),
           proc |-> [command |-> in.v.command, background |-> TRUE, timeout |-> 0, started |-> ok,
                     ended |-> "not awaited"]]
          : ok \in BOOLEAN}
    ELSE {[result |-> BashSyncResult(in, status),
           proc |-> [command |-> in.v.command, background |-> FALSE,
                     timeout |-> Min(NumOr(in, "timeout", DefaultTimeout), MaxTimeout),
                     started |-> TRUE, ended |-> EndOf(status)]] : status \in Statuses}

\* the same for the second definition: a synchronous run only
BashOutcomes2(in) ==
  {[result |-> BashSyncResult2(in, status),
    proc |-> [command |-> in.v.command, background |-> FALSE,
              timeout |-> Min(NumOr(in, "timeout", DefaultTimeout), MaxTimeout2),
              started |-> TRUE, ended |-> EndOf(status)]] : status \in Statuses}

\* case "Bash" with a command, first definition: the gate, then the prompt or the run
StartBash(i, in) ==
  LET g == GateCheck(ctx.dangerouslySkipPermissions, in.v.command)
      gate == [evaluated |-> TRUE, skip |-> ctx.dangerouslySkipPermissions,
               tested |-> g.tested, match |-> g.match, warned |-> g.prompt,
               prompted |-> g.prompt, answered |-> FALSE, answer |-> "", allowed |-> ~g.prompt,
               raw |-> stdin.isRaw]
  IN IF g.prompt
       THEN /\ acts' = acts @@ (i :> Act("prompt", [success |-> FALSE], {"stdout", "stdin"}, gate, 0))
            /\ stdin' = [stdin EXCEPT !.isRaw = IF stdin.isTTY /\ stdin.isRaw THEN FALSE ELSE @,
                                      !.readers = @ + 1]
            /\ UNCHANGED << fs, procs >>
       ELSE /\ \E o \in BashOutcomes(in) :
                 /\ acts' = acts @@ (i :> Act("settled", o.result, {"subprocess"}, gate, 1))
                 /\ procs' = Append(procs, o.proc)
            /\ UNCHANGED << stdin, fs >>

\* case "Bash" with a command, second definition: the run, with no gate
StartBash2(i, in) ==
  /\ \E o \in BashOutcomes2(in) :
       /\ acts' = acts @@ (i :> Act("settled", o.result, {"subprocess"}, NoGate, 1))
       /\ procs' = Append(procs, o.proc)
  /\ UNCHANGED << stdin, fs >>

\* case "AskUser" with a question: the question is printed and a line is awaited
StartAskUser(i, in) ==
  /\ acts' = acts @@ (i :> Act("ask", [success |-> FALSE], {"stdout", "stdin"}, NoGate, 0))
  /\ stdin' = [stdin EXCEPT !.readers = @ + 1]
  /\ UNCHANGED << fs, procs >>

\* every other case: the handler runs, the catch turns an exception into a result
StartHandler(i, tool, outcomes) ==
  /\ \E o \in outcomes :
       LET c == Caught(o)
           st == IF c.thrown THEN "rejected"
                 ELSE IF c.hung THEN "hung"
                 ELSE IF tool.name \in AsyncTools /\ c.io # {} THEN "await"
                 ELSE "settled"
       IN /\ acts' = acts @@ (i :> Act(st, c.result, c.io, NoGate, 0))
          /\ fs' = c.fs
  /\ UNCHANGED << stdin, procs >>

\* executeTool(tool.name, tool.input) is called for pendingTools[i]
StartTool(i) ==
  /\ pc = "tools"
  /\ i \in 1..Len(pendingTools)
  /\ CanStart(i)
  /\ LET tool == pendingTools[i]
         in == tool.input
     IN IF tool.name = "Bash" /\ ~in.undef /\ HasStr(in, "command")
          THEN IF build = 1 THEN StartBash(i, in) ELSE StartBash2(i, in)
        ELSE IF tool.name = "AskUser" /\ build = 1 /\ ~in.undef /\ HasStr(in, "question")
          THEN StartAskUser(i, in)
        ELSE StartHandler(i, tool, IF build = 1 THEN HandlerOutcomes(tool.name, in, fs)
                                   ELSE HandlerOutcomes2(tool.name, in, fs))
  /\ ctx' = IF /\ pendingTools[i].name = "TodoWrite" /\ build = 1
               /\ i \in DOMAIN acts' /\ acts'[i].result.success
              THEN StoreTodos(ctx, pendingTools[i].input.v.todos) ELSE ctx
  /\ UNCHANGED << job, out, build, pc, mode, isProcessing, inputBuffer, submits, userMessage, fullText,
                  pendingTools, results, request, pauses >>

\* a line is typed at the prompt of call i: the readline interface is closed
\* and the call goes on
Answer(i, answer) ==
  /\ pc = "tools"
  /\ i \in DOMAIN acts
  /\ acts[i].st \in {"prompt", "ask"}
  /\ LET in == pendingTools[i].input IN
     IF acts[i].st = "prompt"
       THEN LET gate == [acts[i].gate EXCEPT !.answered = TRUE, !.answer = answer,
                                             !.allowed = PromptAllows(answer)]
            IN /\ stdin' = [stdin EXCEPT !.isRaw = IF stdin.isTTY THEN TRUE ELSE @,
                                         !.readers = @ - 1]
               /\ IF gate.allowed
                    THEN \E o \in BashOutcomes(in) :
                           /\ acts' = [acts EXCEPT ![i] = [@ EXCEPT !.st = "settled",
                                         !.result = o.result, !.gate = gate, !.spawned = 1,
                                         !.io = @ \cup {"subprocess"}]]
                           /\ procs' = Append(procs, o.proc)
                    ELSE /\ acts' = [acts EXCEPT ![i] = [@ EXCEPT !.st = "settled",
                                       !.result = CancelledResult, !.gate = gate]]
                         /\ UNCHANGED procs
       ELSE /\ stdin' = [stdin EXCEPT !.readers = @ - 1]
            /\ acts' = [acts EXCEPT ![i] = [@ EXCEPT !.st = "settled",
                                            !.result = AskUserResult(in, answer)]]
            /\ UNCHANGED procs
  /\ UNCHANGED << job, out, build, pc, mode, ctx, isProcessing, inputBuffer, submits, userMessage,
                  fullText, pendingTools, results, fs, request, pauses >>

\* the asynchronous I/O of call i is over: executeTool resolves
IoDone(i) ==
  /\ pc = "tools"
  /\ i \in DOMAIN acts
  /\ acts[i].st = "await"
  /\ acts' = [acts EXCEPT ![i].st = "settled"]
  /\ UNCHANGED << job, out, build, pc, mode, ctx, isProcessing, inputBuffer, submits, userMessage,
                  fullText, pendingTools, results, stdin, fs, procs, request, pauses >>

\* the loop goes on after its await: the result is pushed and the call is
\* over; a rejection leaves streamResponse as an exception
Resume(i) ==
  /\ pc = "tools"
  /\ i \in DOMAIN acts
  /\ i = Len(results) + 1
  /\ \/ /\ acts[i].st = "settled"
        /\ results' = Append(results, ToolResultEntry(pendingTools[i], acts[i].result))
        /\ acts' = [acts EXCEPT ![i] = Act("consumed", @.result, {}, NoGate, 0)]
        /\ UNCHANGED << pc, isProcessing, userMessage, fullText, pendingTools, procs, request >>
     \/ /\ acts[i].st = "rejected"
        /\ ReturnToCaller(FALSE)
  /\ UNCHANGED << job, out, build, mode, ctx, inputBuffer, submits, stdin, fs, pauses >>

\* after the loop: sendMessage(userMessage, results, ...) and the recursive
\* streamResponse(continuation, null, null)
Continue ==
  /\ pc = "tools"
  /\ Len(results) = Len(pendingTools)
  /\ IF SendThrows(build, userMessage)
       THEN ReturnToCaller(FALSE)
       ELSE /\ request' = [sent |-> TRUE, message |-> userMessage, tool_results |-> results,
                           continuation |-> TRUE]
            /\ pc' = "send"
            /\ userMessage' = JSnull
            /\ fullText' = ""
            /\ UNCHANGED << isProcessing, pendingTools, results, acts, procs >>
  /\ UNCHANGED << job, out, build, mode, ctx, inputBuffer, submits, stdin, fs, pauses >>

\* a detached child that could not be started emits an error event nobody
\* listens to: the process ends
ChildError ==
  /\ Running
  /\ \E k \in 1..Len(procs) : procs[k].background /\ ~procs[k].started
  /\ pc' = "failed"
  /\ UNCHANGED << job, out, build, mode, ctx, isProcessing, inputBuffer, submits, userMessage, fullText,
                  pendingTools, results, acts, stdin, fs, procs, request, pauses >>

\* the steps of the loop over pending_tools
LoopSteps ==
  \/ \E i \in 1..MaxTools : StartTool(i)
  \/ \E i \in 1..MaxTools, answer \in Answers : Answer(i, answer)
  \/ \E i \in 1..MaxTools : Resume(i)
  \/ Continue

\* the agent turns: pauses that ask for up to MaxTools invocations, none of
\* them asynchronous or detached
Next ==
  \/ \E skipArg \in BOOLEAN, message \in {"", "q"} : Main(skipArg, message)
  \/ KeyChar
  \/ KeyReturn
  \/ KeyCtrlC
  \/ Response
  \/ ResponseFails
  \/ EvText
  \/ EvError
  \/ EvEnd
  \/ \E calls \in SeqsUpTo(TurnCalls, MaxTools) : pauses < MaxLongPauses /\ EvPause(calls)
  \/ LoopSteps

Spec == Init /\ [][Next]_vars

\* the dispatcher: one query from the command line and pauses that ask for
\* one invocation of any kind
NextTool ==
  \/ \E skipArg \in BOOLEAN : Main(skipArg, "q")
  \/ Response
  \/ ResponseFails
  \/ EvError
  \/ EvEnd
  \/ \E call \in ToolCalls : EvPause(<< call >>)
  \/ LoopSteps
  \/ \E i \in 1..MaxTools : IoDone(i)
  \/ ChildError

SpecTool == Init /\ [][NextTool]_vars

(***************************************************************************)
(* The functions of the file tools applied on their own: the walk of       *)
(* analyzeDirectoryParallel with its calls of walkDir in flight, the       *)
(* events of the stream of streamJsonSummary, case "Sum" and case "Edit".  *)
(* job holds the arguments and what the environment does, fs the files.    *)
(***************************************************************************)
MaxStatFails == 2  \* the stats that fail in one walk
MaxChunks == 2     \* the chunks a stream delivers
MaxRecords == 3    \* the largest maxRecords of streamJsonSummary
MaxTop == 2        \* the largest top of case "Sum"
MaxPaths == 2      \* the paths of one call of case "Multi"

progVars == << build, pc, mode, ctx, isProcessing, inputBuffer, submits, userMessage, fullText,
               pendingTools, results, acts, stdin, procs, request, pauses >>

\* the trees that are scanned: the files of InitFs, two subdirectories of
\* /w, and at most one directory that cannot be read
ScanTree(blocked) ==
  [p \in Paths |->
     IF p \in {"/w/s", "/w/t"} THEN [Dir EXCEPT !.ok = p # blocked]
     ELSE IF p = "/w/s/e.json" THEN File("[{\"a\":1}]")
     ELSE IF p = "/w/t/f.txt" THEN File("ff")
     ELSE InitFs[p]]

\* a directory of more files than a batch holds, of sizes 1 to 12, and a
\* subdirectory
ManyPaths == {"/m", "/m/f01.txt", "/m/f02.txt", "/m/f03.txt", "/m/f04.txt", "/m/f05.txt",
              "/m/f06.txt", "/m/f07.txt", "/m/f08.txt", "/m/f09.txt", "/m/f10.txt", "/m/f11.txt",
              "/m/f12.txt", "/m/z", "/m/z/g.txt"}
ManyTree ==
  [p \in Paths \cup ManyPaths |->
     IF p \in Paths THEN InitFs[p]
     ELSE IF p \in {"/m", "/m/z"} THEN Dir
     ELSE IF p = "/m/z/g.txt" THEN File("gggggg")
     ELSE File(Repeat("x", CHOOSE k \in 1..12 : InOrder(ManyPaths \ {"/m", "/m/z", "/m/z/g.txt"})[k] = p))]
ManyInputs ==
  {[fs |-> ManyTree,
    job |-> [op |-> "Scan", in |-> Params([path |-> "/m"]), statFails |-> fails]] :
     fails \in {{}, {"/m/f03.txt"}, {"/m/f12.txt", "/m/z/g.txt"}}}

\* (depth 5 stands for a call without depth)
ScanInputs ==
  {[fs |-> ScanTree(blocked),
    job |-> [op |-> "Scan",
             in |-> Params(IF depth = 5 THEN [path |-> root] ELSE [path |-> root, depth |-> depth]),
             statFails |-> fails]] :
     blocked \in {"", "/w/s", "/w/t"}, root \in {"/", "/w"}, depth \in {0, 1, 5},
     fails \in {F \in SUBSET {"/w/a.txt", "/w/s/e.json", "/w/t/f.txt"} :
                  Cardinality(F) <= MaxStatFails}}

\* the texts of the JSON files that are sampled
SampleTexts ==
  {"[{\"a\":1},{\"b\":2},{\"a\":3,\"c\":4},{\"d\":5}]", "[{\"a\":{\"b\":1}},{\"c\":\"}\"},{\"d\":2}]",
   "{\"a\":1,\"b\":2}", "[]", "[{\"a\":1},", "[7,{\"a\":1}]"}

\* the ways a stream cuts a text in 1..n chunks
RECURSIVE Chunkings(_, _)
Chunkings(text, n) ==
  {<< text >>} \cup
  (IF n <= 1 THEN {}
   ELSE UNION {{<< SubSeq(text, 1, k) >> \o rest : rest \in Chunkings(SubSeq(text, k + 1, Len(text)), n - 1)} :
                 k \in 1..(Len(text) - 1)})

SampleInputs ==
  {[fs |-> [InitFs EXCEPT !["/w/d.json"] = File(text)],
    job |-> [op |-> "streamJsonSummary", path |-> "/w/d.json", maxRecords |-> m, readError |-> FALSE]] :
     text \in SampleTexts, m \in 1..MaxRecords}
  \cup
  {[fs |-> [InitFs EXCEPT !["/b/big.json"].big = chunks],
    job |-> [op |-> "streamJsonSummary", path |-> "/b/big.json", maxRecords |-> m, readError |-> e]] :
     chunks \in UNION {Chunkings(text, MaxChunks) : text \in SampleTexts}, m \in 1..MaxRecords,
     e \in BOOLEAN}
  \cup
  {[fs |-> InitFs,
    job |-> [op |-> "streamJsonSummary", path |-> p, maxRecords |-> 1, readError |-> FALSE]] :
     p \in {"/n/c.txt", "/w/k.txt", "/w"}}

\* the trees that are summed: reports in two directories, and files whose
\* names match no pattern
GoodReport == "[{\"g\":\"a\",\"n\":2},{\"g\":\"b\",\"n\":\"$30\"},{\"g\":\"a\",\"n\":5},{\"n\":1}]"
OtherReport == "[{\"g\":\"c\",\"n\":4},{\"g\":\"b\"}]"
BadReport == "[{\"g\":\"c\","
SumTree(present, bad) ==
  [p \in Paths |->
     IF p \in {"/r", "/r/l"} THEN Dir
     ELSE IF p \in present
       THEN File(IF p = bad THEN BadReport ELSE IF p \in {"/r/x.json", "/r/l/Sales by Classification.json"}
                                                  THEN OtherReport ELSE GoodReport)
     ELSE IF IsUnder(p, "/r") THEN Absent
     ELSE InitFs[p]]

SumFileSets ==
  {{"/r/x.json", "/r/y.json"},
   {"/r/Sales by Product.json", "/r/Sales by Product & Location.json", "/r/x.json",
    "/r/l/Sales by Classification.json", "/r/l/Sales by Product per Day.json"},
   {"/r/Sales by Product & Location.json", "/r/l/Sales by Product per Day.json"},
   {"/r/x.json", "/r/l/Sales by Classification.json"},
   {"/r/Sales by Product.json"},
   {"/r/x.json", "/r/y.json", "/r/l/Sales by Product per Day.json"}}

NullReport == "[{\"g\":\"a\",\"n\":2},null,{\"g\":\"b\",\"n\":3}]"
SumInputs ==
  {[fs |-> [SumTree({"/r/x.json", "/r/y.json"}, "") EXCEPT !["/r/y.json"] = File(NullReport)],
    job |-> [op |-> "Sum",
             in |-> Params([path |-> "/r", group |-> "g", fields |-> << "n" >>, top |-> top])]] :
     top \in 0..MaxTop}
  \cup
  {[fs |-> SumTree(present, bad),
    job |-> [op |-> "Sum",
             in |-> Params(IF type = "" THEN [path |-> "/r", group |-> "g", fields |-> << "n" >>,
                                              top |-> top]
                           ELSE [path |-> "/r", group |-> "g", fields |-> << "n" >>, top |-> top,
                                 type |-> type])]] :
     present \in SumFileSets, bad \in {"", "/r/x.json", "/r/Sales by Product.json"},
     top \in 0..MaxTop, type \in {"auto", "product", ""}}

\* the contents that are edited
EditInputs ==
  {[fs |-> [InitFs EXCEPT !["/w/a.txt"] = File(content)],
    job |-> [op |-> "Edit",
             in |-> Params(IF flag = "absent"
                             THEN [file_path |-> "/w/a.txt", old_string |-> old, new_string |-> new]
                             ELSE [file_path |-> "/w/a.txt", old_string |-> old, new_string |-> new,
                                   replace_all |-> flag = "true"])]] :
     content \in {"xyx\nyz", "axxxb", "none"}, old \in {"x", "xx", "y\n"},
     new \in {"Q", "", "xx", "$$", "a$&b", "$1", "$'"}, flag \in {"true", "false", "absent"}}

\* the lists of paths that are read together, the reads that fail though
\* the file is there, and lines (0: left out)
MultiInputs ==
  {[fs |-> InitFs,
    job |-> [op |-> "Multi",
             in |-> Params(IF lines = 0 THEN [paths |-> paths] ELSE [paths |-> paths, lines |-> lines]),
             readFails |-> fails]] :
     paths \in SeqsUpTo({"/w/a.txt", "/n/c.txt", "/w/d.json"}, MaxPaths), lines \in {0, 1, 2},
     fails \in SUBSET (1..MaxPaths)}

\* a file of more lines than Read returns at most
LongFile == Repeat("\n", 2001)

\* the files that are read, and offset and limit (0: left out)
ReadInputs ==
  {[fs |-> [InitFs EXCEPT !["/w/a.txt"] = File(content)],
    job |-> [op |-> "Read",
             in |-> Params([k \in {"file_path"} \cup (IF offset = 0 THEN {} ELSE {"offset"})
                                               \cup (IF limit = 0 THEN {} ELSE {"limit"}) |->
                              CASE k = "file_path" -> "/w/a.txt"
                                [] k = "offset" -> offset
                                [] k = "limit" -> limit])]] :
     content \in {"one\ntwo\nthree", "", LongFile}, offset \in {0, 0 - 2, 1, 2, 4},
     limit \in {0, 0 - 1, 1, 2, 2500}}

\* of the functions checked on their own the second definitions of the file
\* have case "Read" and case "Edit"
FnInputs(b) ==
  IF b = 1 THEN ScanInputs \cup ManyInputs \cup SampleInputs \cup SumInputs \cup EditInputs \cup MultiInputs
                  \cup ReadInputs
  ELSE EditInputs \cup ReadInputs

\* (no function of these uses the terminal)
InitFn ==
  /\ InitProgram
  /\ ~stdin.isTTY
  /\ \E x \in FnInputs(build) : fs = x.fs /\ job = x.job
  /\ out = Idle

\* analyzeDirectoryParallel is called: walkDir(dirPath, 0) waits for its readdir
ScanStart ==
  /\ job.op = "Scan" /\ out = Idle
  /\ out' = [st |-> "walk", results |-> NewScan(job.in.v.path),
             tasks |-> {WalkTask(job.in.v.path, 0)}]
  /\ UNCHANGED << progVars, fs, job >>

\* walkDir goes on after its batches
AfterBatches(res, t, dirs) ==
  [st |-> "walk", results |-> StoreSubdirs(res, dirs, job.in.v.path),
   tasks |-> (out.tasks \ {t}) \cup Recurse(dirs, t.depth, NumOr(job.in, "depth", 5))]

\* a variant of ReaddirFailed that gives up the calls of walkDir still running
ReaddirFailedAborts(t) ==
  [out EXCEPT !.tasks = {},
              !.results.errors = Append(@, [path |-> t.path, error |-> ReadDirError(fs, t.path)])]

\* the catch of walkDir: the error is recorded and this call returns
ReaddirFailed(t) ==
  [out EXCEPT !.tasks = @ \ {t},
              !.results.errors = Append(@, [path |-> t.path, error |-> ReadDirError(fs, t.path)])]

\* the readdir of a call of walkDir completes: it throws into the catch of
\* walkDir, or the entries are sorted out and the first batch is started
ScanReaddir ==
  /\ job.op = "Scan" /\ out.st = "walk"
  /\ \E t \in out.tasks :
       /\ t.stage = "readdir"
       /\ IF ReadDirError(fs, t.path) # ""
            THEN out' = ReaddirFailed(t)
            ELSE LET files == WalkFiles(fs, t.path)
                     dirs == WalkDirs(fs, t.path)
                     res == [out.results EXCEPT !.dirCount = @ + Len(dirs)]
                     next == [t EXCEPT !.stage = "stat", !.files = files, !.dirs = dirs,
                                       !.batch = BatchAt(files, 0)]
                 IN IF Len(files) > 0
                      THEN out' = [out EXCEPT !.results = res, !.tasks = (@ \ {t}) \cup {next}]
                      ELSE out' = AfterBatches(res, t, dirs)
  /\ UNCHANGED << progVars, fs, job >>

\* the stats of a batch complete and are counted; the next batch is started
\* or walkDir goes on
ScanStats ==
  /\ job.op = "Scan" /\ out.st = "walk"
  /\ \E t \in out.tasks :
       /\ t.stage = "stat"
       /\ LET res == StatBatch(out.results, t.batch, fs, job.statFails, job.in.v.path)
              i == t.i + PARALLEL_FILE_BATCH
          IN IF i < Len(t.files)
               THEN out' = [out EXCEPT !.results = res,
                                       !.tasks = (@ \ {t}) \cup
                                                   {[t EXCEPT !.i = i, !.batch = BatchAt(t.files, i)]}]
               ELSE out' = AfterBatches(res, t, t.dirs)
  /\ UNCHANGED << progVars, fs, job >>

\* every call of walkDir has returned: the JSON files are sampled (no call
\* of the model passes content: false) and the result returned, unless one
\* of the samples never resolves
ScanReturn ==
  /\ job.op = "Scan" /\ out.st = "walk" /\ out.tasks = {}
  /\ LET json == JsonFilesOf(out.results)
         res == [out.results EXCEPT !.largestFiles = LargestFiles(@)]
     IN IF \E i \in 1..Len(json) : streamJsonSummary(fs, json[i], MAX_JSON_PREVIEW_RECORDS).hung
          THEN out' = [st |-> "hung", results |-> res]
          ELSE out' = [st |-> "done",
                       result |-> [success |-> TRUE,
                                   jsonSummaries |-> JsonSummaries(fs, out.results, json),
                                   totalSizeFormatted |-> formatBytes(out.results.totalSize)]
                                  @@ res]
  /\ UNCHANGED << progVars, fs, job >>

\* streamJsonSummary is called: the stat fails, the file is small and is
\* read at once, or a stream is created
SampleStart ==
  /\ job.op = "streamJsonSummary" /\ out = Idle
  /\ IF IsLarge(fs, job.path)
       THEN out' = [st |-> "streaming", sampler |-> NewSampler, delivered |-> 0]
       ELSE out' = [st |-> "resolved", result |-> SmallJsonSummary(fs, job.path, job.maxRecords)]
  /\ UNCHANGED << progVars, fs, job >>

\* a data event
SampleData ==
  /\ job.op = "streamJsonSummary" /\ out.st = "streaming"
  /\ fs[job.path].ok
  /\ out.delivered < Len(fs[job.path].big)
  /\ IF out.sampler.recordsFound >= job.maxRecords
       THEN out' = [out EXCEPT !.st = "destroyed"]
       ELSE out' = [out EXCEPT !.sampler = OnData(@, fs[job.path].big[out.delivered + 1],
                                                  job.maxRecords),
                               !.delivered = @ + 1]
  /\ UNCHANGED << progVars, fs, job >>

\* the end event
SampleEnd ==
  /\ job.op = "streamJsonSummary" /\ out.st = "streaming"
  /\ fs[job.path].ok
  /\ out.delivered = Len(fs[job.path].big)
  /\ out' = [st |-> "resolved",
             result |-> OnEnd(out.sampler, FileSize(fs[job.path]), job.maxRecords)]
  /\ UNCHANGED << progVars, fs, job >>

\* the error event: the file cannot be opened, or a read fails
SampleError ==
  /\ job.op = "streamJsonSummary" /\ out.st = "streaming"
  /\ ~fs[job.path].ok \/ (job.readError /\ out.delivered < Len(fs[job.path].big))
  /\ out' = [st |-> "resolved",
             result |-> OnError(out.sampler, FileSize(fs[job.path]),
                                IF fs[job.path].ok THEN "EIO: i/o error"
                                ELSE ReadFileError(fs, job.path))]
  /\ UNCHANGED << progVars, fs, job >>

\* case "Sum", with the reads of its files completing in any order;
\* aggregated, processed and failed are the groups, the files given to
\* processFile in the order their reads complete, and the files for which
\* processFile returned an error
ApplySum ==
  /\ job.op = "Sum" /\ out = Idle
  /\ \E order \in Orders(SumFiles(job.in, fs)) :
       out' = [st |-> "done", result |-> SumTool(job.in, fs, order).result,
               aggregated |-> SumGroups(job.in, fs, order), processed |-> order,
               failed |-> {f \in {order[i] : i \in 1..Len(order)} : ProcessFileError(fs, f) # ""}]
  /\ UNCHANGED << progVars, fs, job >>

\* case "Edit"; content is the text of the file before
ApplyEdit ==
  /\ job.op = "Edit" /\ out = Idle
  /\ LET o == Caught(EditTool(job.in, fs))
     IN /\ out' = [st |-> "done", result |-> o.result, content |-> fs[job.in.v.file_path].data]
        /\ fs' = o.fs
  /\ UNCHANGED << progVars, job >>

\* executeTool("Read", params)
ApplyRead ==
  /\ job.op = "Read" /\ out = Idle
  /\ out' = [st |-> "done", result |-> Caught(ReadTool(job.in, fs)).result]
  /\ UNCHANGED << progVars, fs, job >>

\* case "Multi": params.paths.map starts a read for every path
MultiStart ==
  /\ job.op = "Multi" /\ out = Idle
  /\ out' = [st |-> "reading", entries |-> [i \in {} |-> 0], completed |-> << >>]
  /\ UNCHANGED << progVars, fs, job >>

\* the read of the path at position i completes, and its callback returns
MultiRead ==
  /\ job.op = "Multi" /\ out.st = "reading"
  /\ \E i \in 1..Len(job.in.v.paths) :
       /\ i \notin DOMAIN out.entries
       /\ out' = [out EXCEPT !.entries = @ @@ (i :> MultiEntry(fs, job.in.v.paths[i],
                                                               NumOr(job.in, "lines", 500),
                                                               i \in job.readFails)),
                             !.completed = Append(@, i)]
  /\ UNCHANGED << progVars, fs, job >>

\* every read has completed: Promise.all resolves and the handler returns
MultiReturn ==
  /\ job.op = "Multi" /\ out.st = "reading"
  /\ Len(out.completed) = Len(job.in.v.paths)
  /\ out' = [st |-> "done", completed |-> out.completed,
             result |-> [success |-> TRUE, files |-> MultiFiles(out.entries, out.completed)]]
  /\ UNCHANGED << progVars, fs, job >>

NextFn ==
  \/ MultiStart
  \/ MultiRead
  \/ MultiReturn
  \/ ScanStart
  \/ ScanReaddir
  \/ ScanStats
  \/ ScanReturn
  \/ SampleStart
  \/ SampleData
  \/ SampleEnd
  \/ SampleError
  \/ ApplySum
  \/ ApplyEdit
  \/ ApplyRead

SpecFn == InitFn /\ [][NextFn]_vars

\* streamJsonSummary on its own: every event of the stream that can happen
\* happens in the end
InitSample == InitFn /\ job.op = "streamJsonSummary"
NextSample ==
  \/ SampleStart
  \/ SampleData
  \/ SampleEnd
  \/ SampleError
SpecFnLive == InitSample /\ [][NextSample]_vars /\ WF_vars(NextSample)

(***************************************************************************)
(* The claims.                                                             *)
(***************************************************************************)
\* the calls of executeTool that have resolved
Resolved(i) == i \in DOMAIN acts /\ acts[i].st \in {"settled", "consumed"}
\* the calls of case "Bash" that got past the check of params.command
BashWithCommand(i) ==
  /\ i \in DOMAIN acts
  /\ pendingTools[i].name = "Bash"
  /\ ~pendingTools[i].input.undef
  /\ HasStr(pendingTools[i].input, "command")
\* the answers y and yes in every letter case
YesAnswers == {"y", "Y", "yes", "yeS", "yEs", "yES", "Yes", "YeS", "YEs", "YES"}
\* result.error is set
ErrorSet(r) == "error" \in DOMAIN r /\ r.error \notin {JSnull, JSundefined, ""}

\* C1: with the skip-permissions flag unset, checkDangerousOperation on a
\* command that matches a dangerous pattern resolves to true only after the
\* user answered y or yes (in any letter case); before the answer it has not
\* resolved to true, and every other answer, the empty one included,
\* resolves to false.
C1_PromptDecides ==
  \A i \in DOMAIN acts :
    (acts[i].gate.evaluated /\ ~ctx.dangerouslySkipPermissions
       /\ FirstMatchOf[pendingTools[i].input.v.command] # 0)
    => /\ acts[i].gate.prompted
       /\ acts[i].gate.allowed <=> (acts[i].gate.answered /\ acts[i].gate.answer \in YesAnswers)
       /\ acts[i].st = "settled" => acts[i].gate.answered

\* C1 witness: rm -rf / was allowed by the answer YeS, flag unset
C1_Witness ==
  \E i \in DOMAIN acts :
    /\ acts[i].gate.evaluated /\ ~ctx.dangerouslySkipPermissions
    /\ pendingTools[i].input.v.command = "rm -rf /"
    /\ acts[i].gate.answer = "YeS" /\ acts[i].gate.allowed /\ acts[i].spawned = 1

\* C2: with the skip-permissions flag set, checkDangerousOperation resolves
\* to true for every command; it tests no pattern, prints no warning and
\* opens no prompt on the terminal.
C2_SkipApproves ==
  \A i \in DOMAIN acts :
    (acts[i].gate.evaluated /\ ctx.dangerouslySkipPermissions)
    => /\ acts[i].gate.allowed
       /\ acts[i].gate.tested = 0
       /\ ~acts[i].gate.warned
       /\ ~acts[i].gate.prompted /\ ~acts[i].gate.answered
       /\ acts[i].st # "prompt"
       /\ stdin.readers = 0

\* C2 witness: with the flag set, rm -rf / went to its run at once
C2_Witness ==
  \E i \in DOMAIN acts :
    /\ acts[i].gate.evaluated /\ ctx.dangerouslySkipPermissions
    /\ FirstMatchOf[pendingTools[i].input.v.command] # 0
    /\ acts[i].st = "settled" /\ acts[i].spawned = 1

\* C3: every Bash invocation with a command evaluates the permission gate
\* before a subprocess is started; when the gate rejects, the result is
\* {success:false, cancelled:true, error:"Operation cancelled by user"} and
\* no subprocess is started for the invocation.
C3_GateBeforeSpawn ==
  \A i \in DOMAIN acts :
    (BashWithCommand(i) /\ acts[i].st \in {"prompt", "settled"})
    => /\ acts[i].gate.evaluated
       /\ acts[i].spawned > 0 => acts[i].gate.allowed
       /\ (acts[i].st = "settled" /\ ~acts[i].gate.allowed)
            => (acts[i].result = CancelledResult /\ acts[i].spawned = 0)

\* a permission prompt is pending
PromptPending == \E i \in DOMAIN acts : acts[i].st = "prompt"

\* C4: while a permission prompt is pending, no other tool invocation starts
\* or goes on, no keypress starts a submit, and the prompt is the only
\* reader of the terminal.
C4_PromptExclusive ==
  [][PromptPending =>
       /\ stdin.readers = 1
       /\ \A j \in DOMAIN acts : acts[j].st \in {"prompt", "consumed"}
       /\ DOMAIN acts' \subseteq DOMAIN acts
       /\ \A j \in DOMAIN acts : acts[j].st # "prompt" => (j \in DOMAIN acts' /\ acts'[j] = acts[j])
       /\ results' = results
       /\ submits' = submits]_vars

\* C4 witness: in interactive mode a prompt is pending and another
\* invocation of the pause waits behind it
C4_Witness ==
  /\ mode = "interactive" /\ isProcessing
  /\ \E i \in DOMAIN acts : acts[i].st = "prompt" /\ i < Len(pendingTools)
  /\ submits < MaxTurns

C6_ResultsEchoIds ==
  (request.sent /\ request.continuation)
  => /\ Len(request.tool_results) = Len(pendingTools)
     /\ \A i \in 1..Len(pendingTools) :
          /\ i \in DOMAIN acts /\ acts[i].st = "consumed"
          /\ request.tool_results[i].tool_use_id = pendingTools[i].id
          /\ request.tool_results[i].content = JSONstringify(acts[i].result)

\* C6 witness: a continuation request with the results of two invocations
\* whose names differ
C6_Witness ==
  /\ request.sent /\ request.continuation
  /\ Len(request.tool_results) = 2
  /\ pendingTools[1].name # pendingTools[2].name

\* C7: every result of executeTool with success=false has error set, unless
\* it has cancelled=true.
C7_FailureHasError ==
  \A i \in DOMAIN acts :
    (Resolved(i) /\ ~acts[i].result.success)
    => \/ ErrorSet(acts[i].result)
       \/ ("cancelled" \in DOMAIN acts[i].result /\ acts[i].result.cancelled)

\* C8: executeTool never throws or rejects, it resolves with a result for
\* every tool name and every params value; for an unknown name the result is
\* success=false with error "Unknown tool: <name>" and no I/O is done.
C8_AlwaysResolves ==
  \A i \in DOMAIN acts :
    /\ acts[i].st \notin {"rejected", "hung"}
    /\ (pendingTools[i].name \notin (IF build = 1 THEN KnownTools ELSE KnownTools2)
          /\ acts[i].st = "settled")
       => /\ acts[i].result = [success |-> FALSE,
                               error |-> "Unknown tool: " \o pendingTools[i].name]
          /\ acts[i].io = {}

\* the required parameters of the tools C9 lists
RequiredParams ==
  [Read |-> {"file_path"}, Edit |-> {"file_path", "old_string", "new_string"},
   Write |-> {"file_path", "content"}, Glob |-> {"pattern"}, Grep |-> {"pattern"},
   Bash |-> {"command"}, LS |-> {"path"}, Multi |-> {"paths"}]

\* C9: an invocation that omits a required parameter of its tool returns
\* success=false with an error before any file-system, subprocess or
\* terminal I/O is attempted.
C9_ValidatesBeforeIo ==
  \A i \in DOMAIN acts :
    (/\ pendingTools[i].name \in DOMAIN RequiredParams
     /\ ~(RequiredParams[pendingTools[i].name] \subseteq pendingTools[i].input.given)
     /\ acts[i].st # "consumed")
    => /\ acts[i].st = "settled"
       /\ ~acts[i].result.success
       /\ ErrorSet(acts[i].result)
       /\ acts[i].io = {}

\* the target path of an invocation does not exist
TargetNotFound(i) ==
  /\ pendingTools[i].name \in {"Read", "Edit", "Peek"}
  /\ HasStr(pendingTools[i].input, "file_path")
  /\ fs[pendingTools[i].input.v.file_path].kind = "none"
\* the directory of an invocation does not exist
DirNotFound(i) ==
  /\ pendingTools[i].name \in {"LS", "Scan", "Sum"}
  /\ HasStr(pendingTools[i].input, "path")
  /\ fs[pendingTools[i].input.v.path].kind = "none"
\* the command of an invocation ended with a status that is not zero
NonZeroExit(i) ==
  "exit_code" \in DOMAIN acts[i].result /\ acts[i].result.exit_code \notin {0, NullStatus}

\* C10: an operational error of a handler (target path not found, non-zero
\* exit) gives a result with success=false and error set; it is not thrown
\* and not reported as a success.
C10_OperationalErrorFails ==
  \A i \in DOMAIN acts :
    ((TargetNotFound(i) \/ DirNotFound(i) \/ (acts[i].st = "settled" /\ NonZeroExit(i)))
       /\ acts[i].st # "consumed")
    => /\ acts[i].st \in {"await", "settled"}
       /\ ~acts[i].result.success
       /\ ErrorSet(acts[i].result)

(***************************************************************************)
(* The walk of case "Scan".                                                *)
(***************************************************************************)
\* every call of walkDir has returned
ScanFinished ==
  job.op = "Scan" /\ (out.st \in {"done", "hung"} \/ (out.st = "walk" /\ out.tasks = {}))
ScanResults == IF out.st = "done" THEN out.result ELSE out.results

\* the directories walkDir was called on, those it could read, and the
\* files that are listed in them and are not hidden
DirsWalked == Walked(fs, job.in.v.path, job.in.v.path, NumOr(job.in, "depth", 5))
DirsRead == {d \in DirsWalked : ReadDirError(fs, d) = ""}
FilesSeen ==
  {e \in UNION {Children(fs, d) : d \in DirsRead} : fs[e].kind = "file" /\ NotHidden(e)}
\* the entries of errors that are for files
FileErrors(res) == {i \in 1..Len(res.errors) : fs[res.errors[i].path].kind = "file"}

\* C11: after the walk of Scan, with any stats failing and the calls of
\* walkDir completing in any order, fileCount plus the number of entries of
\* errors for files is the number of files that are not hidden in the
\* directories that were read.
C11_FilesCountedOrInErrors ==
  ScanFinished =>
    ScanResults.fileCount + Cardinality(FileErrors(ScanResults)) = Cardinality(FilesSeen)

\* a walk is over in which a stat failed, a file was counted, a directory
\* could not be read and a hidden file was passed over
C11_Witness ==
  /\ ScanFinished
  /\ FileErrors(ScanResults) # {}
  /\ ScanResults.fileCount > 0
  /\ DirsRead # DirsWalked
  /\ \E d \in DirsRead : \E e \in Children(fs, d) : fs[e].kind = "file" /\ ~NotHidden(e)

\* the statistics of a set of files
ExtensionOf(p) == IF toLowerCase(extname(p)) = "" THEN "(no ext)" ELSE toLowerCase(extname(p))
StatsByExtension(files) ==
  {[ext |-> x, count |-> Cardinality({f \in files : ExtensionOf(f) = x}),
    size |-> SumSizes(fs, {f \in files : ExtensionOf(f) = x})] : x \in {ExtensionOf(f) : f \in files}}
StatsBySize(files) ==
  [c \in {"small", "medium", "large", "huge"} |->
     Cardinality({f \in files : SizeClass(FileSize(fs[f])) = c})]

\* one directory that walkDir is called on cannot be read, it is not the
\* directory that is scanned, and no stat fails
OneBlockedSubdir ==
  /\ job.op = "Scan"
  /\ Cardinality(DirsWalked \ DirsRead) = 1
  /\ job.in.v.path \in DirsRead
  /\ job.statFails \cap FilesSeen = {}

\* C12: when one subdirectory of the tree cannot be read, the Scan that
\* returns has success, errors holds one entry, for that directory, and
\* fileCount, totalSize, byExtension and bySize are the statistics of the
\* files of every directory that could be read.
C12_BlockedSubdirIsolated ==
  (OneBlockedSubdir /\ out.st = "done") =>
    /\ out.result.success
    /\ Len(out.result.errors) = 1
    /\ {out.result.errors[1].path} = DirsWalked \ DirsRead
    /\ out.result.fileCount = Cardinality(FilesSeen)
    /\ out.result.totalSize = SumSizes(fs, FilesSeen)
    /\ {out.result.byExtension[i] : i \in 1..Len(out.result.byExtension)} = StatsByExtension(FilesSeen)
    /\ Len(out.result.byExtension) = Cardinality(StatsByExtension(FilesSeen))
    /\ out.result.bySize = StatsBySize(FilesSeen)

\* such a Scan returned, and files of a sibling of the blocked directory
\* and of its parent were counted
C12_Witness ==
  /\ OneBlockedSubdir /\ out.st = "done"
  /\ \E b \in DirsWalked \ DirsRead :
       /\ \E f \in FilesSeen : dirname(f) = dirname(b)
       /\ \E f \in FilesSeen : dirname(f) # dirname(b) /\ dirname(dirname(f)) = dirname(b)

(***************************************************************************)
(* streamJsonSummary.                                                      *)
(***************************************************************************)
\* the text of a file that is read through a stream
RECURSIVE Concat(_)
Concat(chunks) == IF Len(chunks) = 0 THEN "" ELSE chunks[1] \o Concat(Tail(chunks))

\* streamJsonSummary was called on a file of the size that is streamed
LargeMode == job.op = "streamJsonSummary" /\ IsLarge(fs, job.path)

\* the file holds an array of more than maxRecords objects and nothing else
ManyObjects ==
  LET parsed == JSONparse(Concat(fs[job.path].big))
  IN /\ parsed.ok
     /\ isArray(parsed.v)
     /\ Len(parsed.v.vals) > job.maxRecords
     /\ \A i \in 1..Len(parsed.v.vals) : parsed.v.vals[i].t = "obj"

\* C13: in large-file mode the records sampled are never more than
\* maxRecords, for every text, every cut of it in chunks and every
\* maxRecords >= 1, and the result for an array of more than maxRecords
\* objects holds maxRecords records.
C13_LargeModeExactlyMaxRecords ==
  LargeMode =>
    /\ out.st \in {"streaming", "destroyed"} => Len(out.sampler.records) <= job.maxRecords
    /\ out.st = "resolved" => Len(out.result.records) <= job.maxRecords
    /\ (out.st = "resolved" /\ out.result.error = JSnull /\ ManyObjects)
         => Len(out.result.records) = job.maxRecords

\* the promise of streamJsonSummary is resolved with a summary
SummaryResolved ==
  /\ out.st = "resolved"
  /\ DOMAIN out.result = {"records", "fields", "totalSize", "recordCount", "error"}

\* C14: every call of streamJsonSummary resolves in the end with its
\* summary, also when maxRecords records were found while text remains and
\* reading stops, and when a read fails.
C14_SummaryEventuallyResolves == (job.op = "streamJsonSummary") ~> SummaryResolved

\* streamJsonSummary was called on a file that is read at once and parsed
SmallMode ==
  /\ job.op = "streamJsonSummary"
  /\ ~IsLarge(fs, job.path)
  /\ ReadFileError(fs, job.path) = ""
  /\ JSONparse(fs[job.path].data).ok
FileValue == JSONparse(fs[job.path].data).v

\* C15: in small-file mode, for a file that holds an array of n elements
\* recordCount is n and records holds its first min(n, maxRecords) elements
\* in order; for a file that holds one object records holds that object and
\* recordCount is 1.
C15_SmallModeRecords ==
  (SmallMode /\ out.st = "resolved") =>
    IF isArray(FileValue)
      THEN /\ out.result.recordCount = Len(FileValue.vals)
           /\ out.result.records = SubSeq(FileValue.vals, 1, Min(Len(FileValue.vals), job.maxRecords))
      ELSE /\ out.result.records = << FileValue >>
           /\ out.result.recordCount = 1

\* an array of more elements than maxRecords was sampled
C15_Witness ==
  /\ SmallMode /\ out.st = "resolved"
  /\ isArray(FileValue)
  /\ Len(FileValue.vals) > job.maxRecords
  /\ job.maxRecords > 1

\* the keys of the elements of a sequence, as a set
KeysOf(records) == UNION {{ObjectKeys(records[i])[k] : k \in 1..Len(ObjectKeys(records[i]))} :
                            i \in 1..Len(records)}

\* C16: in small-file mode, for a file that holds an array, fields is the
\* union of the keys of all the elements sampled.
C16_FieldsOfAllSampled ==
  (SmallMode /\ out.st = "resolved" /\ isArray(FileValue)) =>
    {out.result.fields[i] : i \in 1..Len(out.result.fields)} = KeysOf(out.result.records)

(***************************************************************************)
(* case "Sum".                                                             *)
(***************************************************************************)
SumDone == job.op = "Sum" /\ out.st = "done" /\ out.result.success
SumFieldsGiven == job.in.v.fields

\* the sum of a field over the records i, i + 1, ... of a sequence
RECURSIVE FieldSum(_, _, _)
FieldSum(records, f, i) ==
  IF i > Len(records) THEN 0
  ELSE (IF Len(NumberOf(records[i], f)) = 0 THEN 0 ELSE NumberOf(records[i], f)[1])
       + FieldSum(records, f, i + 1)
\* the sum of a field over the records of every file that was processed
RecordTotal(f) ==
  SumOf([k \in 1..Len(out.processed) |-> FieldSum(RecordsOf(fs, out.processed[k]), f, 1)], 1)

\* C17: for every field f of sumFields, totals[f] is the sum of f over all
\* the groups, which hold every record processed, whatever top is, and the
\* ranking returned has no more than topN entries.
C17_TotalsOverAllGroups ==
  SumDone =>
    /\ \A i \in 1..Len(SumFieldsGiven) :
         /\ out.result.totals.sums[i] = RecordTotal(SumFieldsGiven[i])
         /\ out.result.totals.sums[i]
              = SumOf([g \in 1..Len(out.aggregated) |-> out.aggregated[g].sums[i]], 1)
    /\ Len(out.result.results) <= NumOr(job.in, "top", 20)

\* with top = 1 and several groups, the totals are more than the sums of
\* the one group of the ranking
C17_Witness ==
  /\ SumDone
  /\ job.in.v.top = 1
  /\ Len(out.aggregated) > 1
  /\ Len(out.result.results) = 1
  /\ out.result.totals.sums[1] > out.result.results[1].sums[1]

\* the files case "Sum" found, and the place of a file in the order of
\* preference of the automatic selection (5: it matches no pattern)
Discovered == FindJsonFiles(fs, job.in.v.path)
Rank(f) ==
  IF IsProduct(f) THEN 1
  ELSE IF IsProductLoc(f) THEN 2
  ELSE IF IsClassification(f) THEN 3
  ELSE IF IsProductPerDay(f) THEN 4
  ELSE 5
AutoMode == SumDone /\ StrOr(job.in, "type", "auto") = "auto" /\ Len(Discovered) > 1
Processed == {out.processed[i] : i \in 1..Len(out.processed)}
\* no directory has two of the files processed, and each of them comes
\* first in the order of preference among the files found in its directory
OnePerDirectory ==
  /\ \A f, g \in Processed : dirname(f) = dirname(g) => f = g
  /\ \A f \in Processed :
       /\ Rank(f) <= 4
       /\ \A i \in 1..Len(Discovered) :
            dirname(Discovered[i]) = dirname(f) => Rank(f) <= Rank(Discovered[i])

\* C18 as stated: in auto mode with more than one JSON file found, the
\* files aggregated are at most one of each directory, chosen in the order
\* of preference.
C18_AtMostOnePerDirectory == AutoMode => OnePerDirectory

\* C18: in auto mode with more than one JSON file found, when a file found
\* matches one of the four patterns the files aggregated are at most one of
\* each directory, chosen in the order of preference; when none does, every
\* file found is aggregated.
C18_OnePerDirectoryOrAll ==
  AutoMode =>
    IF \E i \in 1..Len(Discovered) : Rank(Discovered[i]) <= 4
      THEN OnePerDirectory
      ELSE Processed = {Discovered[i] : i \in 1..Len(Discovered)}

\* two directories gave one file each, and files of both were left out
C18_Witness ==
  /\ AutoMode
  /\ Cardinality(Processed) = 2
  /\ \E f, g \in Processed : dirname(f) # dirname(g)
  /\ \A f \in Processed :
       \E i \in 1..Len(Discovered) :
         dirname(Discovered[i]) = dirname(f) /\ Discovered[i] \notin Processed

\* the fields of the result of case "Sum"
SumResultFields ==
  {"success", "groupBy", "sumFields", "filesProcessed", "filesUsed", "totalRecords",
   "totalSizeFormatted", "results", "totals"}

\* C19: when a file selected by Sum cannot be read or parsed, the records of
\* the other files are all aggregated, success is true, and the result
\* records the failure: the file is not among filesUsed, or a field of the
\* result names it.
C19_FailedFileRecorded ==
  (job.op = "Sum" /\ out.st = "done" /\ out.failed # {}) =>
    /\ out.result.success
    /\ \A i \in 1..Len(SumFieldsGiven) :
         out.result.totals.sums[i] = RecordTotal(SumFieldsGiven[i])
    /\ out.result.totalRecords
         = SumOf([k \in 1..Len(out.processed) |-> Len(RecordsOf(fs, out.processed[k]))], 1)
    /\ \A f \in out.failed :
         \/ \A i \in 1..Len(out.result.filesUsed) : out.result.filesUsed[i] # basename(f)
         \/ DOMAIN out.result # SumResultFields

(***************************************************************************)
(* case "Edit".                                                            *)
(***************************************************************************)
\* the text with its occurrences of old, taken from the left, replaced by
\* new as it is written: the first one only, or all of them
RECURSIVE Verbatim(_, _, _, _)
Verbatim(text, old, new, all) ==
  IF indexOf(text, old) = 0 THEN text
  ELSE LET i == indexOf(text, old)
           rest == SubSeq(text, i + Len(old), Len(text))
       IN SubSeq(text, 1, i - 1) \o new \o (IF all THEN Verbatim(rest, old, new, all) ELSE rest)

\* Edit ran on a file whose text held old_string
EditApplied ==
  /\ job.op = "Edit" /\ out.st = "done"
  /\ includes(out.content, job.in.v.old_string)

\* C20: Edit on a file whose text holds old_string writes, with replace_all
\* true, the text with every occurrence replaced by new_string, and with
\* replace_all false or absent, the text with the first occurrence replaced
\* and the later ones untouched; the text put in is new_string as it is
\* written, in both modes.
C20_EditReplacesVerbatim ==
  EditApplied =>
    /\ out.result.success
    /\ fs[job.in.v.file_path].data
         = Verbatim(out.content, job.in.v.old_string, job.in.v.new_string,
                    HasBool(job.in, "replace_all"))

\* Edit ran on a file whose text did not hold old_string
EditMissed ==
  /\ job.op = "Edit" /\ out.st = "done"
  /\ ~includes(out.content, job.in.v.old_string)

\* C21: Edit on a file whose text does not hold old_string returns
\* success=false with the error "String not found" and writes nothing: the
\* text of the file is what it was.
C21_EditMissLeavesFile ==
  EditMissed =>
    /\ out.result = [success |-> FALSE, error |-> "String not found"]
    /\ fs[job.in.v.file_path] = File(out.content)

\* such an Edit ran, on a file that holds other text and with a new_string
\* that is not empty
C21_Witness ==
  /\ EditMissed
  /\ out.content # ""
  /\ job.in.v.new_string # ""
  /\ ~out.result.success

(***************************************************************************)
(* case "Bash".                                                            *)
(***************************************************************************)
\* the child process of the call i of executeTool, which started one and
\* whose result is not taken yet: the last child started
ProcOf(i) == procs[Len(procs)]
\* the call i is a call of case "Bash" that ran its command
BashRan(i) == BashWithCommand(i) /\ acts[i].st = "settled" /\ acts[i].spawned > 0
BackgroundAsked(i) == HasBool(pendingTools[i].input, "background")

\* C22: a synchronous run of case "Bash" has the timeout min(requested
\* timeout or 120000, 600000); a command that is still running then is
\* ended and the handler returns a result with success=false.
C22_SyncTimeout ==
  \A i \in DOMAIN acts :
    (BashRan(i) /\ ~ProcOf(i).background)
    => /\ ProcOf(i).timeout
            = Min(IF pendingTools[i].input.v.timeout # 0 THEN pendingTools[i].input.v.timeout
                  ELSE 120000, 600000)
       /\ ProcOf(i).ended = "killed at timeout"
            => ("success" \in DOMAIN acts[i].result /\ ~acts[i].result.success)

\* C23: a call of case "Bash" with background=true that the gate allowed
\* returns once the child is spawned, with success=true and the process id
\* of the child; the child is not awaited, no output is captured and no
\* timeout is set.
C23_BackgroundReturnsPid ==
  \A i \in DOMAIN acts :
    (BashRan(i) /\ BackgroundAsked(i) /\ acts[i].gate.allowed)
    => /\ acts[i].result.success
       /\ acts[i].result.pid # JSundefined
       /\ DOMAIN acts[i].result \cap {"stdout", "stderr"} = {}
       /\ ProcOf(i).background /\ ProcOf(i).ended = "not awaited"
       /\ ProcOf(i).timeout = 0

(***************************************************************************)
(* case "Multi".                                                           *)
(***************************************************************************)
MultiDone == job.op = "Multi" /\ out.st = "done"
MultiPaths == job.in.v.paths
MultiMaxLines == IF job.in.v.lines = 0 THEN 500 ELSE job.in.v.lines
\* the read of the path at position i fails
ReadFailed(i) == i \in job.readFails \/ ReadFileError(fs, MultiPaths[i]) # ""
\* the lines of a text
LinesOf(text) == split(text, "\n")

\* C24: Multi, with any reads failing and completing in any order, returns
\* success=true with one entry for each path, in the order of paths; the
\* entry of a read that failed has success=false and error, every other
\* entry has success=true, the first maxLines lines (500 when lines is left
\* out), totalLines and truncated = (totalLines > maxLines).
C24_MultiOneEntryPerPath ==
  MultiDone =>
    /\ out.result.success
    /\ Len(out.result.files) = Len(MultiPaths)
    /\ \A i \in 1..Len(MultiPaths) :
         LET e == out.result.files[i]
             lines == LinesOf(fs[MultiPaths[i]].data)
         IN /\ e.path = MultiPaths[i]
            /\ IF ReadFailed(i)
                 THEN ~e.success /\ ErrorSet(e)
                 ELSE /\ e.success
                      /\ LinesOf(e.content) = SubSeq(lines, 1, Min(Len(lines), MultiMaxLines))
                      /\ e.totalLines = Len(lines)
                      /\ e.truncated = (Len(lines) > MultiMaxLines)

\* two reads completed in the reverse of the order of paths, the first of
\* them failed and the other gave a file that was cut
C24_Witness ==
  /\ MultiDone
  /\ out.completed = << 2, 1 >>
  /\ ~out.result.files[1].success
  /\ out.result.files[2].success /\ out.result.files[2].truncated
  /\ MultiPaths[1] # MultiPaths[2]

(***************************************************************************)
(* The order and the depth of the walk of case "Scan".                     *)
(***************************************************************************)
\* the files and the subdirectories in the order of the traversal: those
\* of a directory, then those of its subdirectories one after the other
RECURSIVE TraversalFiles(_, _), FilesOver(_, _), TraversalSubdirs(_, _), SubdirsOver(_, _)
TraversalFiles(d, maxDepth) ==
  IF DepthBelow(d, job.in.v.path) > maxDepth \/ ReadDirError(fs, d) # "" THEN << >>
  ELSE LET Statted(f) == f \notin job.statFails
       IN SelectSeq(WalkFiles(fs, d), Statted) \o FilesOver(WalkDirs(fs, d), maxDepth)
FilesOver(dirs, maxDepth) ==
  IF Len(dirs) = 0 THEN << >>
  ELSE TraversalFiles(dirs[1], maxDepth) \o FilesOver(Tail(dirs), maxDepth)
TraversalSubdirs(d, maxDepth) ==
  IF DepthBelow(d, job.in.v.path) > maxDepth \/ ReadDirError(fs, d) # "" THEN << >>
  ELSE WalkDirs(fs, d) \o SubdirsOver(WalkDirs(fs, d), maxDepth)
SubdirsOver(dirs, maxDepth) ==
  IF Len(dirs) = 0 THEN << >>
  ELSE TraversalSubdirs(dirs[1], maxDepth) \o SubdirsOver(Tail(dirs), maxDepth)

\* the paths of a list of the result, from the directory scanned
ListedPaths(list) == [i \in 1..Len(list) |-> list[i].path]
Relative(paths) == [i \in 1..Len(paths) |-> relPath(paths[i], job.in.v.path)]
DepthUsed == NumOr(job.in, "depth", 5)

\* C25: the lists files and subdirs of the result of Scan are in the order
\* of the traversal, whatever the order in which the stats and the readdirs
\* complete.
C25_ListsInTraversalOrder ==
  ScanFinished =>
    /\ ListedPaths(ScanResults.files) = Relative(TraversalFiles(job.in.v.path, DepthUsed))
    /\ ListedPaths(ScanResults.subdirs) = Relative(TraversalSubdirs(job.in.v.path, DepthUsed))

\* the files that were counted, and the directories listed in a directory
\* that was read
FilesCounted == FilesSeen \ job.statFails
DirsSeen == {e \in UNION {Children(fs, d) : d \in DirsRead} : fs[e].kind = "dir" /\ NotHidden(e)}
SetOf(seq) == {seq[i] : i \in 1..Len(seq)}
\* the groups and the number of records when the files of Sum are processed
\* one after the other in the order they were found
GroupsInOrder == SumGroups(job.in, fs, SumFiles(job.in, fs))
RecordsInOrder ==
  SumOf([k \in 1..Len(SumFiles(job.in, fs)) |-> Len(RecordsOf(fs, SumFiles(job.in, fs)[k]))], 1)

DepthAsked == IF "depth" \in job.in.given THEN job.in.v.depth ELSE 5
\* the directories within that depth that could be read, and what they list
DirsWithin == {d \in Walked(fs, job.in.v.path, job.in.v.path, DepthAsked) : ReadDirError(fs, d) = ""}
ListedWithin == UNION {Children(fs, d) : d \in DirsWithin}

\* C27: Scan with the depth d of the caller (5 when left out) reads the
\* directories at depth d or less only: the files, the subdirectories, the
\* counts and the sizes of the result come from the entries of those
\* directories, for every d >= 0.
C27_DepthBoundsWalk ==
  ScanFinished =>
    /\ \A i \in 1..Len(ScanResults.files) :
         pathJoin(job.in.v.path, ScanResults.files[i].path) \in ListedWithin
    /\ \A i \in 1..Len(ScanResults.subdirs) :
         pathJoin(job.in.v.path, ScanResults.subdirs[i].path) \in ListedWithin
    /\ \A i \in 1..Len(ScanResults.errors) :
         ScanResults.errors[i].path \in ListedWithin \cup {job.in.v.path}
    /\ ScanResults.fileCount
         = Cardinality({e \in ListedWithin \ job.statFails : fs[e].kind = "file" /\ NotHidden(e)})
    /\ ScanResults.dirCount
         = Cardinality({e \in ListedWithin : fs[e].kind = "dir" /\ NotHidden(e)})
    /\ ScanResults.totalSize
         = SumSizes(fs, {e \in ListedWithin \ job.statFails : fs[e].kind = "file" /\ NotHidden(e)})

(***************************************************************************)
(* The slice of case "Read".                                               *)
(***************************************************************************)
ReadDone == job.op = "Read" /\ out.st = "done"
FileLines == LinesOf(fs[job.in.v.file_path].data)
\* the first line asked for, and the number of lines asked for
FirstLine == IF "offset" \in job.in.given THEN Max(1, job.in.v.offset) ELSE 1
LinesAsked == IF "limit" \in job.in.given THEN Min(job.in.v.limit, 2000) ELSE 2000
\* the number of lines there are from the first line on, up to that number
LinesDue == Max(0, Min(LinesAsked, Len(FileLines) - FirstLine + 1))

\* C28: Read returns the lines from max(1, offset) (1 when offset is left
\* out) on, limit of them at most, where limit is 2000 when left out and at
\* most 2000: never more than 2000 lines and never fewer than none; every
\* line carries its position in the file counted from 1, and total_lines is
\* the number of lines of the file.
C28_ReadSlice ==
  ReadDone =>
    /\ out.result.success
    /\ out.result.total_lines = Len(FileLines)
    /\ LinesDue <= 2000
    /\ \E lines \in {FileLines} :
         out.result.content
           = join([i \in 1..LinesDue |->
                     padStart(NumStr(FirstLine + i - 1), 5) \o "  " \o lines[FirstLine + i - 1]],
                  "\n")

(***************************************************************************)
(* The commands that no pattern matches.                                   *)
(***************************************************************************)
\* the call i is a call of case "Bash" with a command no pattern matches,
\* made with the flag unset, whose result is not taken yet
Unmatched(i) ==
  /\ BashWithCommand(i) /\ acts[i].st # "consumed"
  /\ ~ctx.dangerouslySkipPermissions
  /\ FirstMatch(pendingTools[i].input.v.command) = 0

\* C29: with the flag unset, a command that matches no dangerous pattern is
\* allowed with no prompt and no warning: the call of case "Bash" goes on to
\* run the command and does not wait for an answer.
C29_UnmatchedRunsUnprompted ==
  \A i \in DOMAIN acts :
    Unmatched(i)
    => /\ acts[i].st # "prompt"
       /\ ~acts[i].gate.warned /\ ~acts[i].gate.prompted /\ ~acts[i].gate.answered
       /\ "stdin" \notin acts[i].io
       /\ acts[i].spawned = 1
       /\ build = 1 => (acts[i].gate.allowed /\ acts[i].gate.tested = Len(DANGEROUS_PATTERNS))

\* a command other than ls that every pattern was tested on and none
\* matched has run
C29_Witness ==
  \E i \in DOMAIN acts :
    /\ Unmatched(i) /\ build = 1 /\ acts[i].gate.evaluated /\ acts[i].spawned = 1
    /\ acts[i].st = "settled" /\ acts[i].gate.tested = Len(DANGEROUS_PATTERNS)
    /\ pendingTools[i].input.v.command # "ls"

(***************************************************************************)
(* The chunks of a large file.                                             *)
(***************************************************************************)
\* the records the data handler extracts when the whole text of the file
\* comes in one chunk
RecordsOfOneChunk == AfterChunks(<< Concat(fs[job.path].big) >>, 1, job.maxRecords).records

\* C30: in large-file mode the records extracted, and their order, are the
\* same however the text is cut in chunks: an object that spans the end of
\* a chunk is extracted once when its closing brace comes, and the objects
\* after it are extracted too, up to maxRecords.
C30_ChunkingIndependent ==
  (LargeMode /\ out.st = "resolved" /\ out.result.error = JSnull)
  => out.result.records = RecordsOfOneChunk

(***************************************************************************)
(* The pauses of a turn and its history.                                   *)
(***************************************************************************)
\* the loop over pending_tools has a result for every invocation and no
\* detached child failed to start
LoopOver ==
  /\ pc = "tools"
  /\ Len(results) = Len(pendingTools)
  /\ \A k \in 1..Len(procs) : procs[k].started

\* C31: at every pause of a turn, the second and the later ones too, the
\* tools are executed and the continuation request with their results is
\* sent: the step after the loop over pending_tools sends it, and the turn
\* goes on with its response.
C31_EveryPauseContinued ==
  [][LoopOver => /\ pc' = "send"
                 /\ request'.sent /\ request'.continuation
                 /\ request'.tool_results = results]_vars

\* the message of a turn (every message of the model is q)
TurnMessage == "q"
\* streamResponse returns to its caller after it changed the history
HistoryUpdated ==
  pc = "stream" /\ pc' \in {"idle", "finished"} /\ ctx'.history # ctx.history
\* the continuation after a pause is sent
Continued == pc = "tools" /\ pc' = "send"

\* C32: when a turn completes, the message of the user and the text of the
\* assistant are appended to ctx.history once, with or without a pause for
\* tools in the turn: the text streamed before a pause is still there when
\* the turn goes on, and the update appends the message and then the text.
C32_HistoryOncePerTurn ==
  [][/\ Continued => fullText' = fullText
     /\ HistoryUpdated =>
          ctx'.history
            = ctx.history \o << [role |-> "user", content |-> TurnMessage] >>
                \o (IF fullText # "" THEN << [role |-> "assistant", content |-> fullText] >>
                    ELSE << >>)]_vars

(***************************************************************************)
(* The batches of stats of walkDir.                                        *)
(***************************************************************************)
Walking == job.op = "Scan" /\ out.st = "walk"
\* the files whose stat has completed: they are listed, or their error is
StatsCompleted ==
  {pathJoin(job.in.v.path, out.results.files[i].path) : i \in 1..Len(out.results.files)}
    \cup {out.results.errors[i].path : i \in 1..Len(out.results.errors)}

\* C33: in one directory of a Scan the stats are made in batches of 10 files
\* at most, one batch after the other: the stats outstanding are those of
\* one batch, every file before the batch has its stat completed and no
\* file after it has, and walkDir is called on a subdirectory only when the
\* stats of all the files of the directory have completed.
C33_BatchesOfTen ==
  Walking =>
    \A t \in out.tasks :
      /\ t.stage = "stat" =>
           /\ Len(t.batch) \in 1..10
           /\ t.batch = SubSeq(t.files, t.i + 1, t.i + Len(t.batch))
           /\ \A k \in 1..Len(t.files) : (t.files[k] \in StatsCompleted) <=> (k <= t.i)
           /\ \A u \in out.tasks : dirname(u.path) # t.path \/ u.path = t.path
      /\ (t.stage = "readdir" /\ t.path # job.in.v.path) =>
           \A k \in 1..Len(WalkFiles(fs, dirname(t.path))) :
             WalkFiles(fs, dirname(t.path))[k] \in StatsCompleted

\* the second batch of a directory of twelve files is outstanding
C33_Witness ==
  /\ Walking
  /\ \E t \in out.tasks :
       t.stage = "stat" /\ Len(t.files) = 12 /\ t.i = 10 /\ Len(t.batch) = 2

(***************************************************************************)
(* The files case "Sum" fails on, and its counts.                          *)
(***************************************************************************)
\* the files processFile returned no error for, in the order they were found
FilesWithoutError ==
  LET Good(f) == f \notin out.failed IN SelectSeq(SumFiles(job.in, fs), Good)
\* the elements of the array a file holds
ElementsOf(f) ==
  IF JSONparse(fs[f].data).ok /\ isArray(JSONparse(fs[f].data).v)
    THEN JSONparse(fs[f].data).v.vals ELSE << >>
\* the groups of the elements of those files
GroupsWithoutError ==
  Aggregate(<< >>, fs, FilesWithoutError, StrOr(job.in, "group", "Product"), SumFieldsGiven)

\* C34: a file that processFile fails on, because it cannot be read, is no
\* JSON or holds an element that cannot be grouped, leaves nothing in the
\* result: the counts and the sums of the groups and totalRecords are those
\* of the other files.
C34_FailedFileLeavesNothing ==
  SumDone =>
    /\ SetOf(out.aggregated) = SetOf(GroupsWithoutError)
    /\ out.result.totalRecords
         = SumOf([k \in 1..Len(FilesWithoutError) |-> Len(ElementsOf(FilesWithoutError[k]))], 1)

\* the sum of _count over the groups
GroupCounts == SumOf([g \in 1..Len(out.aggregated) |-> out.aggregated[g].count], 1)

\* C35: in every result of Sum the sum of _count over the groups,
\* totalRecords and totals._count are equal, and equal to the number of
\* elements of the arrays of the files processed, whatever the order in
\* which the files of a batch complete.
C35_CountsAgree ==
  SumDone =>
    /\ GroupCounts = out.result.totalRecords
    /\ out.result.totals.count = out.result.totalRecords
    /\ out.result.totalRecords
         = SumOf([k \in 1..Len(out.processed) |->
                    IF out.processed[k] \in out.failed THEN 0
                    ELSE Len(ElementsOf(out.processed[k]))], 1)

(***************************************************************************)
(* The counts of a result of Scan.                                         *)
(***************************************************************************)
\* C36: in every result of Scan the four counts of bySize add up to
\* fileCount, which is the sum of the counts of byExtension and the length
\* of files; the sizes of byExtension add up to totalSize; dirCount is the
\* length of subdirs.
C36_ScanCountsAgree ==
  ScanFinished =>
    LET r == ScanResults
    IN /\ r.bySize.small + r.bySize.medium + r.bySize.large + r.bySize.huge = r.fileCount
       /\ SumOf([i \in 1..Len(r.byExtension) |-> r.byExtension[i].count], 1) = r.fileCount
       /\ Len(r.files) = r.fileCount
       /\ SumOf([i \in 1..Len(r.byExtension) |-> r.byExtension[i].size], 1) = r.totalSize
       /\ r.dirCount = Len(r.subdirs)

\* a result with files of two extensions and of two sizes, a subdirectory
\* and a file whose stat failed
C36_Witness ==
  /\ ScanFinished
  /\ Len(ScanResults.byExtension) >= 2
  /\ ScanResults.bySize.small > 0 /\ ScanResults.bySize.large > 0
  /\ ScanResults.dirCount > 0
  /\ \E i \in 1..Len(ScanResults.errors) : ScanResults.errors[i].path \in job.statFails

(***************************************************************************)
(* The largest files of a result of Scan.                                  *)
(***************************************************************************)
\* the files whose stat succeeded, by their full paths and sizes
StattedFiles ==
  {[path |-> pathJoin(job.in.v.path, out.result.files[i].path), size |-> out.result.files[i].size] :
     i \in 1..Len(out.result.files)}
Largest == out.result.largestFiles

\* C37: largestFiles of a result of Scan has at most ten entries, they are
\* files whose stat succeeded, sorted by size with the largest first, and no
\* file whose stat succeeded and that is left out is larger than one of them.
C37_LargestFilesTopTen ==
  (job.op = "Scan" /\ out.st = "done") =>
    /\ Len(Largest) <= 10
    /\ Len(Largest) = (IF Len(out.result.files) < 10 THEN Len(out.result.files) ELSE 10)
    /\ \A i \in 1..Len(Largest) :
         /\ [path |-> Largest[i].path, size |-> Largest[i].size] \in StattedFiles
         /\ Largest[i].sizeFormatted = formatBytes(Largest[i].size)
         /\ \A j \in 1..Len(Largest) : i < j => Largest[i].size >= Largest[j].size
    /\ \A i, j \in 1..Len(Largest) : i # j => Largest[i].path # Largest[j].path
    /\ \A f \in StattedFiles :
         (\A i \in 1..Len(Largest) : Largest[i].path # f.path)
           => \A i \in 1..Len(Largest) : Largest[i].size >= f.size

\* a result of more than ten files, of which the walk met the smallest
\* first and one in a subdirectory
C37_Witness ==
  /\ job.op = "Scan" /\ out.st = "done"
  /\ Len(out.result.files) > 10 /\ Len(Largest) = 10
  /\ out.result.files[1].size < Largest[1].size
  /\ \E f \in StattedFiles : \A i \in 1..Len(Largest) : Largest[i].path # f.path

PromptAnswered(i) ==
  /\ i \in DOMAIN acts /\ acts[i].st = "prompt"
  /\ i \in DOMAIN acts' /\ acts'[i].st = "settled" /\ acts'[i].gate.answered

\* C39: when the prompt of the gate has been answered, stdin is in raw mode
\* if and only if it was in raw mode when checkDangerousOperation was called
\* (gate.raw).
C39_PromptRestoresRawMode ==
  [][\A i \in 1..Len(pendingTools) : PromptAnswered(i) => stdin'.isRaw = acts[i].gate.raw]_vars

====
